---- MODULE Spec2Model ----
(***************************************************************************)
(* A model of the node service of nkbai/Photon (src/raidenService.go,      *)
(* src/models/db.go).  The node "A" owns a few payment channels; the       *)
(* handlers of RaidenService are the actions.  The channel object and the  *)
(* transfer state machines are not part of the sources at hand: their      *)
(* operations are modelled from the written specification (§4.1, §4.2)     *)
(* and are marked so where they are defined.                               *)
(***************************************************************************)
EXTENDS Integers, Sequences, FiniteSets, TLC

(***************************************************************************)
(* Bounds of the model.                                                    *)
(***************************************************************************)
MaxProofs == 4     \* the nonces of all endpoints add up to no more
MaxLog == 1        \* state changes written to the log in one run

(***************************************************************************)
(* The world of the node.                                                  *)
(***************************************************************************)
NodeAddress == "A"
Partners == {"B", "C"}
Address == {NodeAddress} \cup Partners
Token == {"T1"}
Channel == {"c1", "c2"}
Secret == {"s1"}
Hash == {"h1"}
EmptyHash == "h0"
Identifier == {1, 2}
SwapSecret == {"s1", "s2"}
SwapHash == {EmptyHash, "h1", "h2"}
NoMsg == [type |-> "none"]
\* the key of a sent reveal secret: the hash of the message and its recipient
SentEchoHash(secret, recipient) == <<secret, recipient>>
SentEchoHashes == {SentEchoHash(s, r) : s \in Secret, r \in Partners}

\* utils.Sha3 of a secret
Sha3(s) == IF s = "s1" THEN "h1" ELSE "h2"

\* the participants of a channel as the chain reports them (addr1, addr2)
Participants(c) == IF c = "c1" THEN <<"A", "B">> ELSE <<"C", "A">>
TokenOf(c) == "T1"

\* getChannelDetail: which participant is the partner
PartnerOf(c) ==
    IF Participants(c)[1] = NodeAddress THEN Participants(c)[2]
    ELSE Participants(c)[1]

Deposit == 2       \* contract deposit of each endpoint
LockAmount == 1    \* amount of every lock

VARIABLES
    chans,        \* channel -> [state, our, partner]
    h2c,          \* Token2Hashlock2Channels: token -> hash -> list of channels
    disposed,     \* db: disposed_locks, pairs <<hash, channel>>
    sent,         \* messages the last handler handed to Protocol.SendAsync
    scLog,        \* db: the state change log
    evLog,        \* db: the event log
    blockNumber,  \* RaidenService.BlockNumber
    result,       \* outcome of the last handler
    RoutesTask,                 \* RoutesTask.NewTask: the queued RoutesToDetect
    Identifier2StateManagers,   \* identifier -> list of state managers
    SecretRequestPredictorMap,  \* hashlock -> hook (tokenswap)
    RevealSecretListenerMap,    \* hashlock -> hook (tokenswap)
    ReceivedMediatedTrasnferListenerMap,   \* the registered hooks (tokenswap)
    SentMediatedTransferListenerMap,       \* the registered hooks (tokenswap)
    SwapKey2TokenSwap,          \* the swap keys a taker waits for
    makerEnv,     \* tokenSwapMaker: the variables its closures share
    takerEnv,     \* messageTokenSwapTaker: the variables its closures share
    seen,         \* history: what the peers have delivered so far
    snapshot,     \* db: the rows of the snapshot bucket
    acks,         \* db: the echo hashes the AckHelper has saved
    pc,           \* the loop goroutine: "select", or the handler's position and locals
    sending,      \* protocol: the state managers whose message it is sending
    ProtocolMessageSendComplete,   \* the channel of the messages a peer has acked
    ManagerState, \* db: <<identifier, index>> -> StateManager.ManagerState
    restart,      \* history: the restarts so far, what the last one replayed and re-sent
    proc,         \* instance -> [at, loop, touched, exit]: the processes on the data directory
    boltLock,     \* the instance that holds bolt's lock of the db file, or "free"
    FileLocker,   \* the instance that holds the flock of the data directory, or "free"
    meta,         \* db: the meta bucket, [close]
    session,      \* history: the processes started, how the last that ran the service ended
    goroutines,   \* the goroutines the service has spawned that still run, [fn, c]
    access,       \* history: the last access to a map or a channel of the service, [by, object, handler]
    inputs,       \* the input channels of the loop: channel -> the inputs that wait in it
    loopHist,     \* history: the inputs enqueued and handled, the handlers begun and ended
    helpers,      \* the routes task: [NewTask, running], and the handlers that have sent their task
    StateManagers,     \* manager -> the state manager a message's tag points to, <<>>: none yet
    dbStateManagers,   \* db: manager -> the state manager as UpdateStateManaer saved it
    tagged,       \* protocol: [sending, acked], the managers' messages in flight and acknowledged
    dbChannels,   \* db: channel -> the nonce of PartnerBalanceProof in the channel's row
    chain,        \* the transactions the goroutines have submitted, [op, c, proof, accepted]
    LatestBlockNumber,   \* db: the number SaveLatestBlockNumber saved last
    dispatched,   \* history: the highest block handleBlockNumber has dispatched
    alarm,        \* AlarmTask: [at, number, crashes], its callback's position and the last block it saw
    txInfos,      \* db: TXHash -> the TXInfoSerialization row, <<>>: none
    acked,        \* protocol: the direct transfers the partner has acknowledged
    Identifier2Results,   \* identifier -> the result handles of its transfers (their tags)
    dispatchLog,  \* history: [Identifier, idx, type, init], the state changes dispatched to all managers
    SentRevealSecrets,   \* db: echo hash -> the SentRevealSecret row, <<>>: none
    sendCalls,    \* the calls of SendAsync so far: [to, type, tag, at]
    txCall        \* history: [n, op, TXHash, status, pack, err, now], the last call of the TX-info dao and its clock

\* the channels and their registry
chanVars == <<chans, h2c, disposed>>
\* the write-ahead log
logVars == <<scLog, evLog>>
\* the transfers' state managers and the token swap hooks
taskVars == <<RoutesTask, Identifier2StateManagers>>
swapVars == <<SecretRequestPredictorMap, RevealSecretListenerMap,
              ReceivedMediatedTrasnferListenerMap, SentMediatedTransferListenerMap,
              SwapKey2TokenSwap, makerEnv, takerEnv, seen>>
dbVars == <<snapshot, acks>>
\* the goroutines and the process
recoveryVars == <<ProtocolMessageSendComplete, ManagerState, restart>>
lifeVars == <<proc, boltLock, FileLocker, meta, session>>
goVars == <<goroutines, access>>
ioVars == <<inputs, loopHist, helpers>>
mgrVars == <<StateManagers, dbStateManagers, tagged>>
closeVars == <<dbChannels, chain>>
blockVars == <<LatestBlockNumber, dispatched, alarm>>
txVars == <<txInfos, txCall>>
ackVars == <<acked>>
startVars == <<Identifier2Results, dispatchLog>>
srsVars == <<SentRevealSecrets, sendCalls>>
nodeVars == <<pc, recoveryVars, lifeVars, goVars, ioVars, mgrVars, closeVars, blockVars, txVars, ackVars, startVars, srsVars>>
\* what the handlers of the channels leave alone
others == <<taskVars, swapVars, dbVars, nodeVars, sending>>

vars == <<chanVars, sent, logVars, blockNumber, result, others>>

(***************************************************************************)
(* The channel (modelled from the specification, §3 and §4.1).             *)
(***************************************************************************)
EmptyEnd == [nonce |-> 0, transferred |-> 0, pending |-> {}, unclaimed |-> {}]

IsKnown(e, h) == h \in (e.pending \cup e.unclaimed)

AmountLocked(e) == LockAmount * Cardinality(e.pending \cup e.unclaimed)

Balance(e, o) == Deposit - e.transferred + o.transferred

Distributable(e, o) == Balance(e, o) - AmountLocked(e)

CanTransfer(ch) == ch.state = "Opened" /\ Distributable(ch.our, ch.partner) > 0

\* the endpoint that signed a message of this channel
EndOf(ch, side) == IF side = "our" THEN ch.our ELSE ch.partner
OtherEndOf(ch, side) == IF side = "our" THEN ch.partner ELSE ch.our
WithEnd(ch, side, e) ==
    IF side = "our" THEN [ch EXCEPT !.our = e] ELSE [ch EXCEPT !.partner = e]

\* register_transfer's check that a balance proof is a legal successor
ValidSuccessorLoose(e, msg) == msg.nonce # e.nonce
ValidSuccessor(e, msg) ==
    /\ msg.nonce > e.nonce
    /\ msg.transferred >= e.transferred

\* register_transfer: the message is accepted on the endpoint `side`
TransferAccepted(ch, side, msg) ==
    LET e == EndOf(ch, side)
        o == OtherEndOf(ch, side)
    IN  /\ ch.state = "Opened"
        /\ ValidSuccessor(e, msg)
        /\ CASE msg.type = "DirectTransfer" ->
                    msg.transferred - e.transferred <= Distributable(e, o)
             [] msg.type = "MediatedTransfer" ->
                    /\ msg.transferred = e.transferred
                    /\ ~IsKnown(e, msg.hash)
                    /\ LockAmount <= Distributable(e, o)
             [] msg.type = "Secret" ->
                    /\ IsKnown(e, msg.hash)
                    /\ msg.transferred = e.transferred + LockAmount
             [] OTHER -> FALSE

\* register_transfer: the endpoint after the message is committed
TransferApplied(ch, side, msg) ==
    LET e == EndOf(ch, side)
        e1 == [e EXCEPT !.nonce = msg.nonce, !.transferred = msg.transferred]
        e2 == CASE msg.type = "MediatedTransfer" ->
                       [e1 EXCEPT !.pending = @ \cup {msg.hash}]
                [] msg.type = "Secret" ->
                       [e1 EXCEPT !.pending = @ \ {msg.hash},
                                  !.unclaimed = @ \ {msg.hash}]
                [] OTHER -> e1
    IN  WithEnd(ch, side, e2)

\* register_transfer: [ok, ch]
RegisterTransfer(ch, side, msg) ==
    IF TransferAccepted(ch, side, msg)
    THEN [ok |-> TRUE, ch |-> TransferApplied(ch, side, msg)]
    ELSE [ok |-> FALSE, ch |-> ch]

\* register_secret: [ok, ch]
ChannelRegisterSecret(ch, h) ==
    LET reg(e) == IF h \in e.pending
                  THEN [e EXCEPT !.pending = @ \ {h}, !.unclaimed = @ \cup {h}]
                  ELSE e
    IN  IF ~IsKnown(ch.our, h) /\ ~IsKnown(ch.partner, h)
        THEN [ok |-> FALSE, ch |-> ch]
        ELSE [ok |-> TRUE,
              ch |-> [ch EXCEPT !.our = reg(ch.our), !.partner = reg(ch.partner)]]

\* create_direct_transfer
CreateDirectTransfer(c, ch, amount) ==
    [type |-> "DirectTransfer", sender |-> NodeAddress, channel |-> c,
     nonce |-> ch.our.nonce + 1, transferred |-> ch.our.transferred + amount,
     hash |-> EmptyHash]

\* create_unlock
CreateSecret(c, ch, h) ==
    [type |-> "Secret", sender |-> NodeAddress, channel |-> c,
     nonce |-> ch.our.nonce + 1, transferred |-> ch.our.transferred + LockAmount,
     hash |-> h]

CreateMediatedTransfer(c, ch, h) ==
    [type |-> "MediatedTransfer", sender |-> NodeAddress, channel |-> c,
     nonce |-> ch.our.nonce + 1, transferred |-> ch.our.transferred,
     hash |-> h]

(***************************************************************************)
(* RaidenService.                                                          *)
(***************************************************************************)
RECURSIVE SeqRemove(_, _)
\* channelsList with the first occurrence of c removed
SeqRemove(s, c) ==
    IF s = <<>> THEN <<>>
    ELSE IF Head(s) = c THEN Tail(s)
    ELSE <<Head(s)>> \o SeqRemove(Tail(s), c)

RECURSIVE SeqRemoveAll(_, _)
SeqRemoveAll(s, rs) ==
    IF rs = <<>> THEN s ELSE SeqRemoveAll(SeqRemove(s, Head(rs)), Tail(rs))

InSeq(s, c) == \E i \in 1..Len(s) : s[i] = c

\* the channel is appended without a look at the list
RegisterChannelAgain(reg, t, c, h) == [reg EXCEPT ![t][h] = Append(@, c)]

\* RegisterChannelForHashlock: the registry after the call
RegisterChannelForHashlock(reg, t, c, h) ==
    IF InSeq(reg[t][h], c) THEN reg
    ELSE [reg EXCEPT ![t][h] = Append(@, c)]

\* the message as the protocol gets it
Out(to, msg) == [to |-> to, msg |-> msg]

\* SendAsync: the recipient is only compared with NodeAddress to log an error
SendAsync(out, recipient, msg) == out \cup {Out(recipient, msg)}

RevealSecretMsg(s) ==
    [type |-> "RevealSecret", sender |-> NodeAddress, channel |-> "none",
     nonce |-> 0, transferred |-> 0, hash |-> Sha3(s)]

\* HandleSecret, one channel of channelsList, with the secret of a received
\* lock revealed to the payer but not registered on the channel
HandleSecretChannelNoRegister(acc, c, s, psm, h) ==
    LET ch == acc.chans[c]
    IN  IF IsKnown(ch.our, h)
        THEN LET secretMsg == CreateSecret(c, ch, h)
                 r == RegisterTransfer(ch, "our", secretMsg)
             IN  IF ~r.ok THEN [acc EXCEPT !.err = TRUE]
                 ELSE [acc EXCEPT !.chans[c] = r.ch,
                                  !.toSend = Append(@, Out(PartnerOf(c), secretMsg)),
                                  !.toRemove = Append(@, c)]
        ELSE IF IsKnown(ch.partner, h)
        THEN [acc EXCEPT !.toSend = Append(@, Out(PartnerOf(c), RevealSecretMsg(s)))]
        ELSE acc

\* HandleSecret, one channel of channelsList
\* acc: [chans, toSend, toRemove, err]
HandleSecretChannel(acc, c, s, psm, h) ==
    LET ch == acc.chans[c]
    IN  IF IsKnown(ch.our, h)
        THEN LET secretMsg == CreateSecret(c, ch, h)
                 r == RegisterTransfer(ch, "our", secretMsg)
             IN  IF ~r.ok THEN [acc EXCEPT !.err = TRUE]
                 ELSE [acc EXCEPT !.chans[c] = r.ch,
                                  !.toSend = Append(@, Out(PartnerOf(c), secretMsg)),
                                  !.toRemove = Append(@, c)]
        ELSE IF IsKnown(ch.partner, h)
        THEN IF psm # NoMsg /\ psm.sender = PartnerOf(c) /\ psm.channel = c
             THEN LET r == RegisterTransfer(ch, "partner", psm)
                  IN  IF ~r.ok THEN [acc EXCEPT !.err = TRUE]
                      ELSE [acc EXCEPT !.chans[c] = r.ch,
                                       !.toRemove = Append(@, c)]
             ELSE LET r == ChannelRegisterSecret(ch, h)
                  IN  IF ~r.ok THEN [acc EXCEPT !.err = TRUE]
                      ELSE [acc EXCEPT !.chans[c] = r.ch,
                                       !.toSend = Append(@, Out(PartnerOf(c), RevealSecretMsg(s)))]
        ELSE acc

RECURSIVE HandleSecretLoop(_, _, _, _, _)
\* the loop over channelsList, left at the first error
HandleSecretLoop(acc, list, s, psm, h) ==
    IF list = <<>> \/ acc.err THEN acc
    ELSE HandleSecretLoop(HandleSecretChannel(acc, Head(list), s, psm, h),
                          Tail(list), s, psm, h)

RECURSIVE SendAll(_, _)
SendAll(out, msgs) ==
    IF msgs = <<>> THEN out
    ELSE SendAll(SendAsync(out, Head(msgs).to, Head(msgs).msg), Tail(msgs))

\* OpenDb on a new file writes an empty snapshot, model.db.Save(&snapshotToWrite{ID: 1}):
\* no state change id and the nil state, which is the empty tuple here (a state
\* that is not nil is a tuple of one element)
EmptySnapshot == [ID |-> 1, StateChangeId |-> 0, State |-> <<>>]
\* the snapshot bucket of a new database; one that OpenDb wrote no row to
NoSnapshotRow == {}
NewSnapshotBucket == {EmptySnapshot}

\* NewRaidenService: the maps are made empty, no transfer is under way
\* the channels the loop's select receives from
InputChannel == {"ReceivedMessageChan", "BlockNumberChan", "UserReqChan"}

\* the processes started on the one data directory
Instance == {"a", "b"}
\* the instance that has created the db
FirstInstance == "a"

\* IsDbCrashedLastTime: the close flag of the meta bucket is not true
IsDbCrashedLastTime(m) == m.close # TRUE

\* OpenDb, needCreateDb: the meta bucket of a db that has just been created;
\* MarkDbOpenedStatus has set close to false
NewMeta == [close |-> FALSE]

\* NewRaidenService and Start have returned in the first instance: it holds the
\* db and the flock, its loop runs
InitLife ==
    /\ proc = [i \in Instance |->
                 IF i = FirstInstance
                 THEN [at |-> "running", loop |-> TRUE, touched |-> TRUE, exit |-> "none"]
                 ELSE [at |-> "off", loop |-> FALSE, touched |-> FALSE, exit |-> "none"]]
    /\ boltLock = FirstInstance
    /\ FileLocker = FirstInstance
    /\ meta = NewMeta
    /\ session = [count |-> 1, lastEnd |-> "none",
                  crashed |-> IsDbCrashedLastTime(NewMeta)]

InitOthers ==
    /\ InitLife
    /\ goroutines = {}
    /\ access = [by |-> "loop", object |-> "none", handler |-> "select"]
    /\ inputs = [ch \in InputChannel |-> <<>>]
    /\ loopHist = [next |-> 1, enqueued |-> [ch \in InputChannel |-> <<>>],
                   handled |-> [ch \in InputChannel |-> <<>>], trace |-> <<>>]
    /\ helpers = [NewTask |-> <<>>, running |-> {}, sentFor |-> {}]
    /\ StateManagers = [m \in Identifier |-> <<>>]
    /\ dbStateManagers = [m \in Identifier |-> <<>>]
    /\ tagged = [sending |-> {}, acked |-> {}]
    /\ dbChannels = [c \in Channel |-> 0]
    /\ chain = {}
    /\ LatestBlockNumber = 1
    /\ dispatched = 1
    /\ alarm = [at |-> "wait", number |-> 1, crashes |-> 0]
    /\ txInfos = [h \in {"x1", "x2"} |-> <<>>]
    /\ acked = {}
    /\ Identifier2Results = [i \in Identifier |-> <<>>]
    /\ dispatchLog = {}
    /\ SentRevealSecrets = [e \in SentEchoHashes |-> <<>>]
    /\ sendCalls = <<>>
    /\ txCall = [n |-> 0, op |-> "none", TXHash |-> "x1", status |-> "TXInfoStatusPending",
                 pack |-> 0, err |-> FALSE, now |-> 1]
    /\ RoutesTask = <<>>
    /\ Identifier2StateManagers = [i \in Identifier |-> <<>>]
    /\ SecretRequestPredictorMap = [h \in SwapHash |-> "nil"]
    /\ RevealSecretListenerMap = [h \in SwapHash |-> "nil"]
    /\ ReceivedMediatedTrasnferListenerMap = {}
    /\ SentMediatedTransferListenerMap = {}
    /\ SwapKey2TokenSwap = {}
    /\ makerEnv = [hashlock |-> EmptyHash, hasReceiveTakerMediatedTransfer |-> FALSE]
    /\ takerEnv = [hashlock |-> EmptyHash, hasReceiveRevealSecret |-> FALSE,
                   stateManager |-> 0, Expiration |-> 0]
    /\ seen = [takerMtr |-> {}, reveal |-> {}, makerReq |-> FALSE, takerReq |-> FALSE,
               accepted |-> <<0, EmptyHash>>]
    /\ snapshot = NewSnapshotBucket
    /\ acks = {}
    /\ pc = [at |-> "select"]
    /\ sending = {}
    /\ ProtocolMessageSendComplete = {}
    /\ ManagerState = [k \in {} |-> "Init"]
    /\ restart = [count |-> 0, replayed |-> <<>>, emitted |-> {}, unacked |-> {},
                  resent |-> {}]

Init ==
    /\ chans = [c \in Channel |->
                  [state |-> "Opened", our |-> EmptyEnd, partner |-> EmptyEnd]]
    /\ h2c = [t \in Token |-> [h \in Hash |-> <<>>]]
    /\ disposed = {}
    /\ sent = {}
    /\ scLog = <<>>
    /\ evLog = <<>>
    /\ blockNumber = 1
    /\ result = "none"
    /\ InitOthers

RECURSIVE SumOver(_, _)
SumOver(f, S) ==
    IF S = {} THEN 0
    ELSE LET x == CHOOSE y \in S : TRUE IN f[x] + SumOver(f, S \ {x})

\* the balance proofs signed so far, all endpoints (the model's budget)
TotalNonce(cs) ==
    SumOver([c \in Channel |-> cs[c].our.nonce + cs[c].partner.nonce], Channel)

\* n more balance proofs stay within the bound
NonceRoom(n) == TotalNonce(chans) + n <= MaxProofs

\* the entry of the hashlock is deleted whatever is left of the list
ClearRegistry(reg, t, h, channelsList) == [reg EXCEPT ![t][h] = <<>>]

\* HandleSecret: if len(channelsList) == 0, delete the entry of the hashlock,
\* else store channelsList (a hashlock without an entry reads as the empty list)
RewriteRegistry(reg, t, h, channelsList) == [reg EXCEPT ![t][h] = channelsList]

\* HandleSecret(identifier, tokenAddress, secret, partnerSecretMessage, hashlock)
HandleSecret(t, s, psm) ==
    LET h == Sha3(s)
        channelsList == h2c[t][h]
        acc == HandleSecretLoop([chans |-> chans, toSend |-> <<>>,
                                 toRemove |-> <<>>, err |-> FALSE],
                                channelsList, s, psm, h)
        left == SeqRemoveAll(channelsList, acc.toRemove)
    IN  /\ NonceRoom(Len(channelsList))
        /\ chans' = acc.chans
        /\ IF acc.err
           THEN /\ result' = "error"
                /\ sent' = {}
                /\ UNCHANGED h2c
           ELSE /\ h2c' = RewriteRegistry(h2c, t, h, left)
                /\ sent' = SendAll({}, acc.toSend)
                /\ result' = "ok"
        /\ UNCHANGED <<others, disposed, scLog, evLog, blockNumber>>

\* the Secret messages a partner may deliver (the message handler passes them on)
PartnerSecretMsgs(s) ==
    {[type |-> "Secret", sender |-> p, channel |-> c,
      nonce |-> chans[c].partner.nonce + d,
      transferred |-> chans[c].partner.transferred + LockAmount, hash |-> Sha3(s)] :
        p \in Partners, c \in Channel, d \in {0, 1}}

\* RegisterSecret, the channels of one list
RECURSIVE RegisterSecretLoop(_, _, _)
RegisterSecretLoop(acc, list, s) ==
    IF list = <<>> THEN acc
    ELSE LET c == Head(list)
             r == ChannelRegisterSecret(acc.chans[c], Sha3(s))
         IN  RegisterSecretLoop(
                 [chans |-> [acc.chans EXCEPT ![c] = r.ch],
                  out |-> SendAsync(acc.out, PartnerOf(c), RevealSecretMsg(s))],
                 Tail(list), s)

\* RegisterSecret(secret): all tokens (the model has one)
RegisterSecret(s) ==
    LET acc == RegisterSecretLoop([chans |-> chans, out |-> {}],
                                  h2c["T1"][Sha3(s)], s)
    IN  /\ chans' = acc.chans
        /\ sent' = acc.out
        /\ result' = "ok"
        /\ UNCHANGED <<others, h2c, disposed, scLog, evLog, blockNumber>>

\* db.LogStateChange: the log after the write; the id is the new length
LogStateChange(log, sc) == Append(log, sc)

RECURSIVE LogEvents(_, _, _, _)
\* db.LogEvents
LogEvents(log, id, events, block) ==
    IF events = <<>> THEN log
    ELSE LogEvents(Append(log, [StateChangeId |-> id, BlockNumber |-> block,
                                EventObject |-> Head(events)]),
                   id, Tail(events), block)

\* a lookup that takes any channel of the token
TokenChannels(t, target) == {c \in Channel : TokenOf(c) = t}

\* graph.GetPartenerAddress2Channel
DirectChannels(t, target) ==
    {c \in Channel : TokenOf(c) = t /\ PartnerOf(c) = target}

\* a check of the amount alone
LacksDistributable(ch, amount) == Distributable(ch.our, ch.partner) < amount

\* DirectTransferAsync: !directChannel.CanTransfer() ||
\* directChannel.Distributable().Cmp(amount) < 0
NotAvailable(ch, amount) ==
    \/ ~CanTransfer(ch)
    \/ Distributable(ch.our, ch.partner) < amount

\* DirectTransferAsync(tokenAddress, target, amount, identifier)
DirectTransferAsync(t, target, amount) ==
    LET cs == DirectChannels(t, target)
    IN  IF \/ cs = {}
           \/ \E c \in cs : NotAvailable(chans[c], amount)
        THEN /\ result' = "no available direct channel"
             /\ sent' = {}
             /\ UNCHANGED <<others, chans, h2c, disposed, scLog, evLog, blockNumber>>
        ELSE \E c \in cs :
             LET tr == CreateDirectTransfer(c, chans[c], amount)
                 r == RegisterTransfer(chans[c], "our", tr)
                 sc == [type |-> "ActionTransferDirect", token |-> t,
                        node |-> PartnerOf(c), amount |-> amount]
                 log1 == LogStateChange(scLog, sc)
             IN  /\ NonceRoom(1)
                 /\ Len(scLog) < MaxLog
                 /\ chans' = [chans EXCEPT ![c] = r.ch]
                 /\ scLog' = log1
                 /\ evLog' = LogEvents(evLog, Len(log1),
                                       <<[type |-> "EventTransferSentSuccess",
                                          target |-> target, amount |-> amount]>>,
                                       blockNumber)
                 /\ sent' = {Out(PartnerOf(c), tr)}
                 /\ result' = "sent"
                 /\ UNCHANGED <<others, h2c, disposed, blockNumber>>

\* SendAsync called by the event handler of the state machines
SendAsyncCall(recipient, type, h) ==
    /\ sent' = SendAsync({}, recipient,
                         [type |-> type, sender |-> NodeAddress, channel |-> "none",
                          nonce |-> 0, transferred |-> 0, hash |-> h])
    /\ result' = "ok"
    /\ UNCHANGED <<others, chans, h2c, disposed, scLog, evLog, blockNumber>>

(***************************************************************************)
(* The environment of the service: what the state machines' event handler  *)
(* and the message handler do with a channel (modelled from §4.1, §4.2).   *)
(***************************************************************************)
\* a state machine emits SendMediatedTransfer: our lock h is created on c.
\* A hashlock lives on one endpoint of a channel only: route search excludes
\* the payer (MediateMediatedTransfer).
SendMediatedTransfer(c, h) ==
    LET tr == CreateMediatedTransfer(c, chans[c], h)
        r == RegisterTransfer(chans[c], "our", tr)
    IN  /\ CanTransfer(chans[c])
        /\ NonceRoom(1)
        /\ ~IsKnown(chans[c].partner, h)
        /\ r.ok
        /\ chans' = [chans EXCEPT ![c] = r.ch]
        /\ h2c' = RegisterChannelForHashlock(h2c, TokenOf(c), c, h)
        /\ sent' = SendAsync({}, PartnerOf(c), tr)
        /\ result' = "ok"
        /\ UNCHANGED <<others, disposed, scLog, evLog, blockNumber>>

\* a transfer of the partner arrives on c
ReceiveTransfer(c, type, n, tr, h) ==
    LET msg == [type |-> type, sender |-> PartnerOf(c), channel |-> c,
                nonce |-> n, transferred |-> tr,
                hash |-> IF type = "MediatedTransfer" THEN h ELSE EmptyHash]
        r == RegisterTransfer(chans[c], "partner", msg)
    IN  /\ type = "MediatedTransfer" => ~IsKnown(chans[c].our, h)
        /\ TotalNonce([chans EXCEPT ![c] = r.ch]) <= MaxProofs
        /\ chans' = [chans EXCEPT ![c] = r.ch]
        /\ h2c' = IF r.ok /\ type = "MediatedTransfer"
                  THEN RegisterChannelForHashlock(h2c, TokenOf(c), c, h)
                  ELSE h2c
        /\ result' = "none"
        /\ sent' = {}
        /\ UNCHANGED <<others, disposed, scLog, evLog, blockNumber>>

\* a state machine emits SendAnnounceDisposed for a lock whose secret is not known
AnnounceDisposed(c, h) ==
    /\ h \in chans[c].our.pending \cup chans[c].partner.pending
    /\ <<h, c>> \notin disposed
    /\ disposed' = disposed \cup {<<h, c>>}
    /\ sent' = SendAsync({}, PartnerOf(c),
                         [type |-> "AnnounceDisposed", sender |-> NodeAddress,
                          channel |-> c, nonce |-> 0, transferred |-> 0, hash |-> h])
    /\ result' = "ok"
    /\ UNCHANGED <<others, chans, h2c, scLog, evLog, blockNumber>>

\* the chain reports the channel closed
ChannelClosed(c) ==
    /\ chans[c].state = "Opened"
    /\ chans' = [chans EXCEPT ![c].state = "Closed"]
    /\ sent' = {}
    /\ result' = "none"
    /\ UNCHANGED <<others, h2c, disposed, scLog, evLog, blockNumber>>

Next ==
    \/ \E t \in Token, s \in Secret : HandleSecret(t, s, NoMsg)
    \/ \E t \in Token, s \in Secret : \E m \in PartnerSecretMsgs(s) : HandleSecret(t, s, m)
    \/ \E s \in Secret : RegisterSecret(s)
    \/ \E t \in Token, a \in Address, n \in 1..Deposit : DirectTransferAsync(t, a, n)
    \/ \E a \in Address, h \in Hash : SendAsyncCall(a, "SecretRequest", h)
    \/ \E c \in Channel, h \in Hash : SendMediatedTransfer(c, h)
    \/ \E c \in Channel, d \in {-1, 1}, h \in Hash :
       \E n \in {chans[c].partner.nonce - 1, chans[c].partner.nonce + 1} :
           ReceiveTransfer(c, "DirectTransfer", n, chans[c].partner.transferred + d, h)
    \/ \E c \in Channel, h \in Hash :
       \E n \in {chans[c].partner.nonce - 1, chans[c].partner.nonce + 1} :
           ReceiveTransfer(c, "MediatedTransfer", n, chans[c].partner.transferred, h)
    \/ \E c \in Channel, h \in Hash : AnnounceDisposed(c, h)
    \/ \E c \in Channel : ChannelClosed(c)

Spec == Init /\ [][Next]_vars

(***************************************************************************)
(* Mediated transfers: the state managers, the routes task, the token swap.*)
(* The state machines and the message handler are modelled from the        *)
(* specification (§4.2, §4.4); the service's part is raidenService.go.     *)
(***************************************************************************)
DefaultRevealTimeout == 2   \* params.DefaultRevealTimeout, in blocks
SettleTimeout == 4          \* settle timeout of the channels, in blocks
MaxBlock == 2               \* the chain grows to this block

\* the swap this node makes, and the swap it takes (one swap in a run)
MakerSwap == [Identifier |-> 1, FromToken |-> "T1", FromAmount |-> 1,
              FromNodeAddress |-> NodeAddress,
              ToToken |-> "T2", ToAmount |-> 2, ToNodeAddress |-> "B"]
TakerSwap == [Identifier |-> 2, FromToken |-> "T2", FromAmount |-> 2,
              FromNodeAddress |-> "B",
              ToToken |-> "T1", ToAmount |-> 1, ToNodeAddress |-> NodeAddress]

SwapKey(id, token, amount) ==
    [Identifier |-> id, FromToken |-> token, FromAmount |-> amount]

\* encoding.MediatedTransfer, the fields the service reads
MediatedTransferMsg(id, h, token, target, initiator, amount, expiration) ==
    [type |-> "MediatedTransfer", Identifier |-> id, HashLock |-> h, Token |-> token,
     Target |-> target, Initiator |-> initiator, Amount |-> amount,
     Expiration |-> expiration, Secret |-> "none"]

\* encoding.RevealSecret; HashLock() is the hash of its secret
RevealSecret(sec) ==
    [type |-> "RevealSecret", Identifier |-> 0, HashLock |-> Sha3(sec), Token |-> "none",
     Target |-> "none", Initiator |-> "none", Amount |-> 0, Expiration |-> 0,
     Secret |-> sec]

\* the process has not panicked
Alive == result # "panic"

\* startMediatedTransferInternal: [ok, mgrs, tasks, idx]
startMediatedTransferInternal(mgrs, tasks, routes, token, target, amount, identifier, hashlock, expiration, block) ==
    IF ~routes
    THEN [ok |-> FALSE, mgrs |-> mgrs, tasks |-> tasks, idx |-> 0]
    ELSE LET initInitiator ==
                 [type |-> "ActionInitInitiator", Identifier |-> identifier,
                  Token |-> token, Target |-> target, Amount |-> amount,
                  Expiration |-> expiration, BlockNumber |-> block,
                  RandomGenerator |-> IF hashlock = EmptyHash THEN "random"
                                                                ELSE hashlock]
             stateManager ==
                 [name |-> "initiator", CurrentState |-> "nil",
                  Hashlock |-> EmptyHash, Secret |-> "none", Expiration |-> 0,
                  FromExpiration |-> 0, Init |-> NoMsg]
             idx == Len(mgrs[identifier]) + 1
         IN  [ok |-> TRUE,
              mgrs |-> [mgrs EXCEPT ![identifier] = Append(@, stateManager)],
              tasks |-> Append(tasks, [Identifier |-> identifier, idx |-> idx,
                                       InitStateChange |-> initInitiator]),
              idx |-> idx]

\* tokenSwapMaker, secretRequestHook: [ignore, map]
makerSecretRequestHook(env, map) ==
    IF ~env.hasReceiveTakerMediatedTransfer
    THEN [ignore |-> TRUE, map |-> map]
    ELSE [ignore |-> FALSE, map |-> [map EXCEPT ![env.hashlock] = "nil"]]

\* tokenSwapMaker, sentMtrHook: [env, map]
sentMtrHook(env, map, mtr, tokenswap) ==
    IF /\ mtr.Identifier = tokenswap.Identifier
       /\ mtr.Token = tokenswap.FromToken
       /\ mtr.Target = tokenswap.ToNodeAddress
       /\ mtr.Amount = tokenswap.FromAmount
    THEN LET map1 == IF env.hashlock # EmptyHash
                     THEN [map EXCEPT ![env.hashlock] = "nil"]
                     ELSE map
         IN  [env |-> [env EXCEPT !.hashlock = mtr.HashLock],
              map |-> [map1 EXCEPT ![mtr.HashLock] = "maker"]]
    ELSE [env |-> env, map |-> map]

\* a receiveMtrHook that notes the taker's transfer and stays registered
receiveMtrHookStay(env, mtr, tokenswap) ==
    IF /\ mtr.Identifier = tokenswap.Identifier
       /\ env.hashlock = mtr.HashLock
       /\ mtr.Token = tokenswap.ToToken
       /\ mtr.Target = tokenswap.FromNodeAddress
       /\ mtr.Amount = tokenswap.ToAmount
    THEN [env |-> [env EXCEPT !.hasReceiveTakerMediatedTransfer = TRUE],
          remove |-> FALSE]
    ELSE [env |-> env, remove |-> FALSE]

\* tokenSwapMaker, receiveMtrHook: [env, remove]
receiveMtrHook(env, mtr, tokenswap) ==
    IF /\ mtr.Identifier = tokenswap.Identifier
       /\ env.hashlock = mtr.HashLock
       /\ mtr.Token = tokenswap.ToToken
       /\ mtr.Target = tokenswap.FromNodeAddress
       /\ mtr.Amount = tokenswap.ToAmount
    THEN [env |-> [env EXCEPT !.hasReceiveTakerMediatedTransfer = TRUE],
          remove |-> TRUE]
    ELSE [env |-> env, remove |-> FALSE]

\* tokenSwapMaker(tokenswap), a user request; routes: a route to the taker exists
tokenSwapMaker(routes) ==
    LET r == startMediatedTransferInternal(
                 Identifier2StateManagers, RoutesTask, routes,
                 MakerSwap.FromToken, MakerSwap.ToNodeAddress, MakerSwap.FromAmount,
                 MakerSwap.Identifier, EmptyHash, 0, blockNumber)
    IN  /\ Alive
        /\ ~seen.makerReq /\ ~seen.takerReq
        /\ seen' = [seen EXCEPT !.makerReq = TRUE]
        /\ makerEnv' = [hashlock |-> EmptyHash,
                        hasReceiveTakerMediatedTransfer |-> FALSE]
        /\ SentMediatedTransferListenerMap' =
               SentMediatedTransferListenerMap \cup {"sentMtrHook"}
        /\ ReceivedMediatedTrasnferListenerMap' =
               ReceivedMediatedTrasnferListenerMap \cup {"receiveMtrHook"}
        /\ Identifier2StateManagers' = r.mgrs
        /\ RoutesTask' = r.tasks
        /\ result' = IF r.ok THEN "ok" ELSE "no available route"
        /\ sent' = {}
        /\ UNCHANGED <<nodeVars, sending, chanVars, logVars, blockNumber, dbVars,
                       SecretRequestPredictorMap, RevealSecretListenerMap,
                       SwapKey2TokenSwap, takerEnv>>

\* tokenSwapTaker(tokenswap), a user request
tokenSwapTaker ==
    /\ Alive
    /\ ~seen.makerReq /\ ~seen.takerReq
    /\ seen' = [seen EXCEPT !.takerReq = TRUE]
    /\ SwapKey2TokenSwap' = SwapKey2TokenSwap \cup
           {SwapKey(TakerSwap.Identifier, TakerSwap.FromToken, TakerSwap.FromAmount)}
    /\ result' = "ok"
    /\ sent' = {}
    /\ UNCHANGED <<nodeVars, sending, chanVars, logVars, blockNumber, dbVars, taskVars,
                   SecretRequestPredictorMap, RevealSecretListenerMap,
                   ReceivedMediatedTrasnferListenerMap,
                   SentMediatedTransferListenerMap, makerEnv, takerEnv>>

\* messageTokenSwapTaker(msg, tokenswap): [remove, mgrs, tasks, predictors, listeners, env]
messageTokenSwapTaker(msg, tokenswap, routes) ==
    LET same == [remove |-> FALSE, mgrs |-> Identifier2StateManagers,
                 tasks |-> RoutesTask, predictors |-> SecretRequestPredictorMap,
                 listeners |-> RevealSecretListenerMap, env |-> takerEnv]
        takerExpiration == msg.Expiration - DefaultRevealTimeout
        r == startMediatedTransferInternal(
                 Identifier2StateManagers, RoutesTask, routes,
                 tokenswap.ToToken, tokenswap.FromNodeAddress, tokenswap.ToAmount,
                 tokenswap.Identifier, msg.HashLock, takerExpiration, blockNumber)
    IN  IF \/ msg.Identifier # tokenswap.Identifier
           \/ msg.Amount # tokenswap.FromAmount
           \/ msg.Initiator # tokenswap.FromNodeAddress
           \/ msg.Token # tokenswap.FromToken
           \/ msg.Target # tokenswap.ToNodeAddress
        THEN same
        ELSE IF ~r.ok THEN same
        ELSE [remove |-> TRUE, mgrs |-> r.mgrs, tasks |-> r.tasks,
              predictors |-> [SecretRequestPredictorMap EXCEPT ![msg.HashLock] = "taker"],
              listeners |-> [RevealSecretListenerMap EXCEPT ![msg.HashLock] = "taker"],
              env |-> [hashlock |-> msg.HashLock, hasReceiveRevealSecret |-> FALSE,
                       stateManager |-> r.idx, Expiration |-> msg.Expiration]]

\* messageTokenSwapTaker, secretRequestHook: ignore
takerSecretRequestHook(env) == ~env.hasReceiveRevealSecret

\* messageTokenSwapTaker, receiveRevealSecretHook: [remove, panic, env, mgrs, map]
receiveRevealSecretHook(env, mgrs, map, msg, tokenswap) ==
    LET id == tokenswap.Identifier
        stateManager == mgrs[id][env.stateManager]
    IN  IF msg.HashLock # env.hashlock
        THEN [remove |-> FALSE, panic |-> FALSE, env |-> env, mgrs |-> mgrs, map |-> map]
        ELSE IF \/ stateManager.CurrentState # "InitiatorState"
                \/ stateManager.Hashlock # msg.HashLock
        THEN [remove |-> FALSE, panic |-> TRUE, env |-> env, mgrs |-> mgrs, map |-> map]
        ELSE [remove |-> TRUE, panic |-> FALSE,
              env |-> [env EXCEPT !.hasReceiveRevealSecret = TRUE],
              mgrs |-> [mgrs EXCEPT ![id][env.stateManager].Secret = msg.Secret],
              map |-> [map EXCEPT ![env.hashlock] = "nil"]]

\* the message handler, a mediated transfer whose target is this node: the taker's
\* swap is looked up by its key, then the listeners run
ReceiveMediatedTransfer(msg, routes) ==
    LET key == SwapKey(msg.Identifier, msg.Token, msg.Amount)
        t == IF key \in SwapKey2TokenSwap
             THEN messageTokenSwapTaker(msg, TakerSwap, routes)
             ELSE [remove |-> FALSE, mgrs |-> Identifier2StateManagers,
                   tasks |-> RoutesTask, predictors |-> SecretRequestPredictorMap,
                   listeners |-> RevealSecretListenerMap, env |-> takerEnv]
        m == IF "receiveMtrHook" \in ReceivedMediatedTrasnferListenerMap
             THEN receiveMtrHook(makerEnv, msg, MakerSwap)
             ELSE [env |-> makerEnv, remove |-> FALSE]
        isTakerMtr == /\ msg.Identifier = MakerSwap.Identifier
                      /\ msg.Token = MakerSwap.ToToken
                      /\ msg.Target = MakerSwap.FromNodeAddress
                      /\ msg.Amount = MakerSwap.ToAmount
    IN  /\ Alive
        /\ msg.Expiration > blockNumber
        /\ SwapKey2TokenSwap' = IF t.remove THEN SwapKey2TokenSwap \ {key}
                                            ELSE SwapKey2TokenSwap
        /\ Identifier2StateManagers' = t.mgrs
        /\ RoutesTask' = t.tasks
        /\ SecretRequestPredictorMap' = t.predictors
        /\ RevealSecretListenerMap' = t.listeners
        /\ takerEnv' = t.env
        /\ makerEnv' = m.env
        /\ ReceivedMediatedTrasnferListenerMap' =
               IF m.remove THEN ReceivedMediatedTrasnferListenerMap \ {"receiveMtrHook"}
                           ELSE ReceivedMediatedTrasnferListenerMap
        /\ SentMediatedTransferListenerMap' =
               IF m.remove THEN SentMediatedTransferListenerMap \ {"sentMtrHook"}
                           ELSE SentMediatedTransferListenerMap
        /\ seen' = IF isTakerMtr
                   THEN [seen EXCEPT !.takerMtr = @ \cup {msg.HashLock}]
                   ELSE seen
        /\ result' = "ok"
        /\ sent' = {}
        /\ UNCHANGED <<nodeVars, sending, chanVars, logVars, blockNumber, dbVars>>

\* SendAsync, the listeners of sent mediated transfers: [env, map]
SentMediatedTransferListeners(listeners, env, map, mtr) ==
    IF "sentMtrHook" \in listeners
    THEN sentMtrHook(env, map, mtr, MakerSwap)
    ELSE [env |-> env, map |-> map]

\* the initiator's lock expiration: 0 asks for the channel's settle timeout
LockExpiration(expiration, block) ==
    IF expiration = 0 THEN block + SettleTimeout ELSE expiration

\* the initiator's transition on its Init, with the secret sec its generator
\* hands out: [mgr, mtr]
InitiatorTransition(mgr, init, sec, block) ==
    LET h == IF init.RandomGenerator = "random" THEN Sha3(sec) ELSE init.RandomGenerator
        secret == IF init.RandomGenerator = "random" THEN sec ELSE "none"
        expiration == LockExpiration(init.Expiration, block)
    IN  [mgr |-> [mgr EXCEPT !.CurrentState = "InitiatorState", !.Hashlock = h,
                             !.Secret = secret, !.Expiration = expiration,
                             !.Init = init],
         mtr |-> MediatedTransferMsg(init.Identifier, h, init.Token, init.Target,
                                     NodeAddress, init.Amount, expiration)]

\* the initiator sends its mediated transfer
InitiatorSend(id, idx, init, sec, block) ==
    LET t == InitiatorTransition(Identifier2StateManagers[id][idx], init, sec, block)
        mtr == t.mtr
        l == SentMediatedTransferListeners(SentMediatedTransferListenerMap, makerEnv,
                                           SecretRequestPredictorMap, mtr)
    IN  /\ Identifier2StateManagers' =
               [Identifier2StateManagers EXCEPT ![id][idx] = t.mgr]
        /\ makerEnv' = l.env
        /\ SecretRequestPredictorMap' = l.map
        /\ sent' = SendAsync({}, init.Target, mtr)
        /\ result' = "ok"

RevealTimeout == 2          \* Config.RevealTimeout, in blocks
MaxTransfers == 1           \* mediated transfers a peer asks this node to forward

\* the mediator's outgoing expiration, a mediator that keeps the incoming one
MediatorExpirationKept(expirationIn) == expirationIn
\* the mediator's outgoing expiration
MediatorExpiration(expirationIn) == expirationIn - RevealTimeout

\* the mediator's transition on its Init: [mgr, failed, mtr]
MediatorTransition(mgr, init) ==
    LET expirationOut == MediatorExpiration(init.FromTransfer.Expiration)
        failed == \/ init.Routes = {}
                  \/ expirationOut <= init.BlockNumber + RevealTimeout
        mtr == MediatedTransferMsg(init.Identifier, init.FromTransfer.HashLock,
                                   init.FromTransfer.Token, init.FromTransfer.Target,
                                   init.FromTransfer.Initiator,
                                   init.FromTransfer.Amount, expirationOut)
    IN  [failed |-> failed, mtr |-> mtr,
         mgr |-> IF failed
                 THEN [mgr EXCEPT !.CurrentState = "Failed", !.Init = init]
                 ELSE [mgr EXCEPT !.CurrentState = "MediatorState",
                                  !.Hashlock = mtr.HashLock,
                                  !.Expiration = expirationOut,
                                  !.FromExpiration = init.FromTransfer.Expiration,
                                  !.Init = init]]

\* the mediator forwards the transfer to a hop of its routes, or gives the lock up
MediatorInit(id, idx, init) ==
    LET t == MediatorTransition(Identifier2StateManagers[id][idx], init)
        mtr == t.mtr
        l == SentMediatedTransferListeners(SentMediatedTransferListenerMap, makerEnv,
                                           SecretRequestPredictorMap, mtr)
    IN  /\ Identifier2StateManagers' =
               [Identifier2StateManagers EXCEPT ![id][idx] = t.mgr]
        /\ IF t.failed
           THEN /\ sent' = SendAsync({}, init.FromRoute,
                                     [mtr EXCEPT !.type = "AnnounceDisposed"])
                /\ result' = "disposed"
                /\ UNCHANGED <<makerEnv, SecretRequestPredictorMap>>
           ELSE /\ makerEnv' = l.env
                /\ SecretRequestPredictorMap' = l.map
                /\ \E hop \in init.Routes : sent' = SendAsync({}, hop, mtr)
                /\ result' = "ok"

\* handleRoutesTask(task): the state change is logged and dispatched
handleRoutesTask ==
    LET task == Head(RoutesTask)
        init == task.InitStateChange
        log1 == LogStateChange(scLog, init)
    IN  /\ Alive
        /\ RoutesTask # <<>>
        /\ RoutesTask' = Tail(RoutesTask)
        /\ scLog' = log1
        /\ IF init.type = "ActionInitInitiator"
           THEN \E sec \in SwapSecret :
                    InitiatorSend(task.Identifier, task.idx, init, sec, init.BlockNumber)
           ELSE MediatorInit(task.Identifier, task.idx, init)
        /\ evLog' = LogEvents(evLog, Len(log1), <<CHOOSE m \in sent' : TRUE>>, blockNumber)
        /\ sending' = IF result' = "ok"
                      THEN sending \cup {<<task.Identifier, task.idx>>}
                      ELSE sending
        /\ UNCHANGED <<nodeVars, chanVars, blockNumber, dbVars, RevealSecretListenerMap,
                       ReceivedMediatedTrasnferListenerMap,
                       SentMediatedTransferListenerMap, SwapKey2TokenSwap,
                       takerEnv, seen>>

\* the initiator, after a refund of its hop: a new route, with a secret of its generator
InitiatorNewRoute(id, idx, sec) ==
    LET mgr == Identifier2StateManagers[id][idx]
    IN  /\ Alive
        /\ idx \in 1..Len(Identifier2StateManagers[id])
        /\ mgr.name = "initiator"
        /\ mgr.CurrentState = "InitiatorState"
        /\ InitiatorSend(id, idx, mgr.Init, sec, blockNumber)
        /\ UNCHANGED <<nodeVars, sending, chanVars, logVars, blockNumber, dbVars, RoutesTask,
                       RevealSecretListenerMap, ReceivedMediatedTrasnferListenerMap,
                       SentMediatedTransferListenerMap, SwapKey2TokenSwap,
                       takerEnv, seen>>

\* the message handler, a SecretRequest: the predictor of its hashlock may have it
\* ignored; else the initiators of the identifier get it
ReceiveSecretRequest(id, h) ==
    LET hook == SecretRequestPredictorMap[h]
        p == IF hook = "maker" THEN makerSecretRequestHook(makerEnv, SecretRequestPredictorMap)
             ELSE IF hook = "taker"
             THEN [ignore |-> takerSecretRequestHook(takerEnv),
                   map |-> SecretRequestPredictorMap]
             ELSE [ignore |-> FALSE, map |-> SecretRequestPredictorMap]
        mgrs == Identifier2StateManagers[id]
        takers == {i \in 1..Len(mgrs) : /\ mgrs[i].name = "initiator"
                                        /\ mgrs[i].CurrentState = "InitiatorState"
                                        /\ mgrs[i].Hashlock = h}
    IN  /\ Alive
        /\ SecretRequestPredictorMap' = p.map
        /\ IF p.ignore \/ takers = {}
           THEN /\ result' = "ignored"
                /\ sent' = {}
                /\ UNCHANGED seen
           ELSE /\ result' = "accepted"
                /\ sent' = {Out("B", [RevealSecret(mgrs[i].Secret) EXCEPT !.HashLock = h])
                               : i \in takers}
                /\ seen' = [seen EXCEPT !.accepted = <<id, h>>]
        /\ UNCHANGED <<nodeVars, sending, chanVars, logVars, blockNumber, dbVars, taskVars,
                       RevealSecretListenerMap, ReceivedMediatedTrasnferListenerMap,
                       SentMediatedTransferListenerMap, SwapKey2TokenSwap,
                       makerEnv, takerEnv>>

\* the message handler, a RevealSecret: the listener of its hashlock runs
ReceiveRevealSecret(sec) ==
    LET msg == RevealSecret(sec)
        h == msg.HashLock
        r == IF RevealSecretListenerMap[h] = "taker"
             THEN receiveRevealSecretHook(takerEnv, Identifier2StateManagers,
                                          SecretRequestPredictorMap, msg, TakerSwap)
             ELSE [remove |-> FALSE, panic |-> FALSE, env |-> takerEnv,
                   mgrs |-> Identifier2StateManagers, map |-> SecretRequestPredictorMap]
    IN  /\ Alive
        /\ takerEnv' = r.env
        /\ Identifier2StateManagers' = r.mgrs
        /\ SecretRequestPredictorMap' = r.map
        /\ RevealSecretListenerMap' =
               IF r.remove THEN [RevealSecretListenerMap EXCEPT ![h] = "nil"]
                           ELSE RevealSecretListenerMap
        /\ seen' = [seen EXCEPT !.reveal = @ \cup {h}]
        /\ result' = IF r.panic THEN "panic" ELSE "ok"
        /\ sent' = {}
        /\ UNCHANGED <<nodeVars, sending, chanVars, logVars, blockNumber, dbVars, RoutesTask,
                       ReceivedMediatedTrasnferListenerMap,
                       SentMediatedTransferListenerMap, SwapKey2TokenSwap, makerEnv>>

\* handleBlockNumber: a new block
handleBlockNumber ==
    /\ Alive
    /\ blockNumber < MaxBlock
    /\ blockNumber' = blockNumber + 1
    /\ sent' = {}
    /\ result' = "ok"
    /\ UNCHANGED <<chanVars, logVars, others>>

\* the mediated transfers a peer may deliver to this node as their target
TargetTransfers ==
    {MediatedTransferMsg(id, h, token, NodeAddress, "B", amount, e) :
        id \in Identifier, h \in SwapHash, token \in {"T1", "T2"},
        amount \in {1, 2}, e \in 2..(MaxBlock + DefaultRevealTimeout)}

NextSwap ==
    \/ \E routes \in BOOLEAN : tokenSwapMaker(routes)
    \/ tokenSwapTaker
    \/ \E msg \in TargetTransfers, routes \in BOOLEAN : ReceiveMediatedTransfer(msg, routes)
    \/ handleRoutesTask
    \/ \E id \in Identifier, sec \in SwapSecret : InitiatorNewRoute(id, 1, sec)
    \/ \E id \in Identifier, h \in SwapHash : ReceiveSecretRequest(id, h)
    \/ \E sec \in SwapSecret : ReceiveRevealSecret(sec)
    \/ handleBlockNumber

SpecSwap == Init /\ [][NextSwap]_vars

(***************************************************************************)
(* Claims about the channels and HandleSecret, checked under Spec.         *)
(* `sent` holds what the last handler handed to the protocol.              *)
(***************************************************************************)

\* C1: no handler emits an Unlock (Secret message) for a lock of a channel
\* while the pair (lock hash, channel) is in disposed_locks.
DisposedLockSafety ==
    \A m \in sent :
        m.msg.type = "Secret" => <<m.msg.hash, m.msg.channel>> \notin disposed

\* C2: no message handed to the protocol is addressed to the node itself.
NoSelfSend == \A m \in sent : m.to # NodeAddress

\* C3: whenever a balance proof is applied to an endpoint, its nonce is
\* strictly greater and its transferred amount not smaller than before.
BalanceProofMonotonic ==
    [][\A c \in Channel : \A side \in {"our", "partner"} :
          LET e == EndOf(chans[c], side)
              f == EndOf(chans'[c], side)
          IN  (f.nonce # e.nonce \/ f.transferred # e.transferred)
                  => (f.nonce > e.nonce /\ f.transferred >= e.transferred)]_vars

\* C3 witness: an endpoint has applied a second balance proof that moved
\* tokens, and its partner has applied one too.
BalanceProofMonotonicWitness ==
    \E c \in Channel :
        /\ chans[c].our.nonce >= 2
        /\ chans[c].our.transferred >= 1
        /\ chans[c].partner.nonce >= 1

GetBestRoutes(neighbours, exclude) == neighbours \ {exclude}

\* the state managers of all identifiers
ManagerCount(mgrs) == SumOver([i \in Identifier |-> Len(mgrs[i])], Identifier)

\* MediateMediatedTransfer(msg): [mgrs, tasks]; msg came from sender, and
\* neighbours have a route to the target
MediateMediatedTransfer(msg, sender, neighbours) ==
    LET avaiableRoutes == GetBestRoutes(neighbours, sender)
        initMediator == [type |-> "ActionInitMediator", Identifier |-> msg.Identifier,
                         FromTransfer |-> msg, Routes |-> avaiableRoutes,
                         FromRoute |-> sender, BlockNumber |-> blockNumber]
        stateManager == [name |-> "mediator", CurrentState |-> "nil",
                         Hashlock |-> EmptyHash, Secret |-> "none", Expiration |-> 0,
                         FromExpiration |-> 0, Init |-> NoMsg]
        mgrs == Identifier2StateManagers[msg.Identifier]
    IN  [mgrs |-> [Identifier2StateManagers EXCEPT
                       ![msg.Identifier] = Append(@, stateManager)],
         tasks |-> Append(RoutesTask,
                          [Identifier |-> msg.Identifier, idx |-> Len(mgrs) + 1,
                           InitStateChange |-> initMediator])]

\* NewRaidenService: the protocol has no saver of received messages
NoReceivedMessageSaver == "nil"
\* NewRaidenService: Protocol.SetReceivedMessageSaver(NewAckHelper(srv.db))
ReceivedMessageSaver == "AckHelper"

\* the echo hash of a signed message: the hash of what it says and who signed it
EchoHash(msg, sender) == [msg |-> msg, sender |-> sender]

Ack(e) == [type |-> "Ack", EchoHash |-> e]

\* the protocol has acknowledged this echo hash before
IsDuplicate(e) == ReceivedMessageSaver = "AckHelper" /\ e \in acks

\* a peer delivers a mediated transfer to forward. The protocol answers a
\* duplicate with its ack; else the loop hands the message to the message
\* handler and the protocol saves and sends the ack when that returns no error
Deliver(msg, sender, neighbours) ==
    LET e == EchoHash(msg, sender)
        r == MediateMediatedTransfer(msg, sender, neighbours)
    IN  /\ Alive
        /\ e \in acks \/ Cardinality(acks) < MaxTransfers
        /\ IF IsDuplicate(e)
           THEN /\ sent' = {Out(sender, Ack(e))}
                /\ result' = "ack"
                /\ UNCHANGED <<taskVars, acks>>
           ELSE IF msg.Expiration <= blockNumber
           THEN /\ sent' = {}
                /\ result' = "error"
                /\ UNCHANGED <<taskVars, acks>>
           ELSE /\ Identifier2StateManagers' = r.mgrs
                /\ RoutesTask' = r.tasks
                /\ acks' = acks \cup {e}
                /\ sent' = {Out(sender, Ack(e))}
                /\ result' = "ok"
        /\ UNCHANGED <<nodeVars, sending, chanVars, logVars, blockNumber, swapVars, snapshot>>

\* the mediated transfers a peer may ask this node to forward: their locks have
\* expired, or leave the mediator just too little or just enough time
ForwardTransfers ==
    {MediatedTransferMsg(id, "h1", "T1", "D", "E", 1, e) :
        id \in Identifier,
        e \in {blockNumber, blockNumber + 2 * RevealTimeout,
               blockNumber + 2 * RevealTimeout + 1}}

NextMediator ==
    \/ \E msg \in ForwardTransfers, sender \in Partners, neighbours \in SUBSET Partners :
           Deliver(msg, sender, neighbours)
    \/ handleRoutesTask
    \/ handleBlockNumber

SpecMediator == Init /\ [][NextMediator]_vars

(***************************************************************************)
(* Snapshot, crash and restart: the state changes logged after the         *)
(* snapshot are applied again (§4.3).                                      *)
(***************************************************************************)
MaxStarts == 2              \* transfers the user starts in one run

\* StartMediatedTransfer and StartTakerMediatedTransfer: a transfer of the user,
\* with a hashlock of the caller or none
StartMediatedTransfer(id, hashlock, routes) ==
    LET r == startMediatedTransferInternal(
                 Identifier2StateManagers, RoutesTask, routes, "T1", "B", 1,
                 id, hashlock, 0, blockNumber)
    IN  /\ Alive
        /\ ManagerCount(Identifier2StateManagers) < MaxStarts
        /\ Identifier2StateManagers' = r.mgrs
        /\ RoutesTask' = r.tasks
        /\ result' = IF r.ok THEN "ok" ELSE "no available route"
        /\ sent' = {}
        /\ UNCHANGED <<nodeVars, sending, chanVars, logVars, blockNumber, swapVars, dbVars>>

\* storm's Update of the row with the id of s: the fields of s that are not the
\* zero value of their type replace the row's; [bucket, err]
Update(bucket, s) ==
    IF \E r \in bucket : r.ID = s.ID
    THEN [bucket |->
              {IF r.ID # s.ID THEN r
               ELSE [ID |-> r.ID,
                     StateChangeId |-> IF s.StateChangeId = 0 THEN r.StateChangeId
                                                               ELSE s.StateChangeId,
                     State |-> IF s.State = <<>> THEN r.State ELSE s.State] :
               r \in bucket},
          err |-> "nil"]
    ELSE [bucket |-> bucket, err |-> "ErrNotFound"]

\* db.Snapshot(stateChangeId, state): the row with ID 1 is updated
Snapshot ==
    LET s == [ID |-> 1, StateChangeId |-> Len(scLog),
              State |-> <<Identifier2StateManagers>>]
    IN  /\ Alive
        /\ snapshot' = Update(snapshot, s).bucket
        /\ sent' = {}
        /\ result' = "snapshot"
        /\ UNCHANGED <<nodeVars, sending, chanVars, logVars, blockNumber, taskVars,
                       swapVars, acks>>

\* db.LoadSnapshot: [state, err]; the state of the row with ID 1, not found when
\* there is no such row or its state is nil
LoadSnapshot(bucket) ==
    IF \E r \in bucket : r.ID = 1 /\ r.State # <<>>
    THEN [state |-> (CHOOSE r \in bucket : r.ID = 1).State[1], err |-> "nil"]
    ELSE [state |-> <<>>, err |-> "ErrNotFound"]

\* the state change id of the snapshot row
SnapshotStateChangeId == (CHOOSE r \in snapshot : r.ID = 1).StateChangeId

\* a state manager as NewStateManager makes it
FreshManager(mgr) ==
    [mgr EXCEPT !.CurrentState = "nil", !.Hashlock = EmptyHash, !.Secret = "none",
                !.Expiration = 0, !.FromExpiration = 0, !.Init = NoMsg]

RECURSIVE FreshManagers(_)
FreshManagers(list) ==
    IF list = <<>> THEN <<>>
    ELSE <<FreshManager(Head(list))>> \o FreshManagers(Tail(list))

\* RestoreSnapshot: the state managers of the snapshot, and those added to the
\* db after it as they were made
RestoreSnapshot ==
    LET l == LoadSnapshot(snapshot)
        saved == IF l.err = "nil" THEN l.state ELSE [id \in Identifier |-> <<>>]
    IN  [id \in Identifier |->
            saved[id] \o FreshManagers(SubSeq(Identifier2StateManagers[id],
                                              Len(saved[id]) + 1,
                                              Len(Identifier2StateManagers[id])))]

\* the first manager of a list that has not got its Init, 0 if none
FirstPending(list) ==
    IF \E k \in 1..Len(list) : list[k].CurrentState = "nil"
    THEN CHOOSE k \in 1..Len(list) :
             /\ list[k].CurrentState = "nil"
             /\ \A j \in 1..(k - 1) : list[j].CurrentState # "nil"
    ELSE 0

MaxCrashes == 1             \* the process dies and starts again this often

\* the first state change a restart applies again: the one after the snapshot's;
\* a restart that applies the whole log again
ReplayFromStart(id) == 1
ReplayFrom(id) == id + 1

RECURSIVE ReplayStateChanges(_, _, _, _)
\* the state changes log[i..] applied in id order; secs: what the random
\* generator hands out this time; acc: [mgrs, replayed, emitted], the
\* managers, the ids applied so far and the messages the transitions emitted
ReplayStateChanges(acc, log, i, secs) ==
    IF i > Len(log) THEN acc
    ELSE LET init == log[i]
             id == init.Identifier
             k == FirstPending(acc.mgrs[id])
             seen1 == [acc EXCEPT !.replayed = Append(@, i)]
         IN  IF k = 0 THEN ReplayStateChanges(seen1, log, i + 1, secs)
             ELSE LET t == IF init.type = "ActionInitInitiator"
                           THEN InitiatorTransition(acc.mgrs[id][k], init, secs[i],
                                                    init.BlockNumber)
                           ELSE MediatorTransition(acc.mgrs[id][k], init)
                  IN  ReplayStateChanges(
                          [seen1 EXCEPT !.mgrs[id][k] = t.mgr,
                                        !.emitted = @ \cup {t.mtr}],
                          log, i + 1, secs)

\* the state managers that have sent their message
HasSent(mgrs) ==
    UNION {{<<id, i>> : i \in {j \in 1..Len(mgrs[id]) :
                                   mgrs[id][j].CurrentState \in
                                       {"InitiatorState", "MediatorState"}}} :
           id \in Identifier}

\* the state managers whose message no peer has acknowledged, as the db has them
Unacked(mgrs) ==
    {k \in HasSent(mgrs) : k \notin DOMAIN ManagerState}

\* the messages the protocol takes up again after a restart: the unacknowledged
\* ones; a restart that takes up none
NoResend(unacked) == {}
Resend(unacked) == unacked

\* the process dies and starts again: snapshot, then the later state changes;
\* the events of the replay are not delivered, the unacknowledged messages of
\* the db are sent again
Restart ==
    \E secs \in [1..Len(scLog) -> SwapSecret] :
        LET r == ReplayStateChanges(
                     [mgrs |-> RestoreSnapshot, replayed |-> <<>>, emitted |-> {}],
                     scLog, ReplayFrom(SnapshotStateChangeId), secs)
            unacked == Unacked(r.mgrs)
            resent == Resend(unacked)
        IN  /\ restart.count < MaxCrashes
            /\ Identifier2StateManagers' = r.mgrs
            /\ RoutesTask' = <<>>
            /\ sent' = {}
            /\ result' = "restored"
            /\ sending' = resent
            /\ ProtocolMessageSendComplete' = {}
            /\ restart' = [count |-> restart.count + 1, replayed |-> r.replayed,
                           emitted |-> r.emitted, unacked |-> unacked,
                           resent |-> resent]
            /\ UNCHANGED <<ioVars, mgrVars, closeVars, blockVars, txVars, ackVars, startVars, srsVars, goVars, lifeVars, pc, ManagerState, chanVars, logVars, blockNumber, swapVars,
                           dbVars>>

\* SendAsync's goroutine: the peer has acknowledged the message (result.Result),
\* the message goes to ProtocolMessageSendComplete
SendComplete(k) ==
    /\ Alive
    /\ k \in sending
    /\ sending' = sending \ {k}
    /\ ProtocolMessageSendComplete' = ProtocolMessageSendComplete \cup {k}
    /\ UNCHANGED <<ioVars, mgrVars, closeVars, blockVars, txVars, ackVars, startVars, srsVars, goVars, lifeVars, pc, ManagerState, restart, chanVars, sent, logVars, blockNumber,
                   result, taskVars, swapVars, dbVars>>

\* handleSentMessage(sentMessage), the message of a state manager (a mediated
\* transfer): ManagerState = StateManagerSendMessageSuccesss, saved in the db
handleSentMessage(k) ==
    /\ Alive
    /\ k \in ProtocolMessageSendComplete
    /\ ProtocolMessageSendComplete' = ProtocolMessageSendComplete \ {k}
    /\ ManagerState' = [j \in DOMAIN ManagerState \cup {k} |->
                           IF j = k THEN "SendMessageSuccess" ELSE ManagerState[j]]
    /\ sent' = {}
    /\ result' = "ok"
    /\ UNCHANGED <<ioVars, mgrVars, closeVars, blockVars, txVars, ackVars, startVars, srsVars, goVars, lifeVars, pc, restart, sending, chanVars, logVars, blockNumber, taskVars,
                   swapVars, dbVars>>

NextReplay ==
    \/ \E id \in Identifier, h \in SwapHash, routes \in BOOLEAN :
           StartMediatedTransfer(id, h, routes)
    \/ handleRoutesTask
    \/ Snapshot
    \/ Restart
    \/ handleBlockNumber

SpecReplay == Init /\ [][NextReplay]_vars

\* transfers with a hashlock of the caller and a route, snapshots and
\* restarts, the acks of the peers
NextRecovery ==
    \/ \E id \in Identifier : StartMediatedTransfer(id, "h1", TRUE)
    \/ handleRoutesTask
    \/ Snapshot
    \/ Restart
    \/ \E k \in sending : SendComplete(k)
    \/ \E k \in ProtocolMessageSendComplete : handleSentMessage(k)

\* the peers answer and the loop takes what is on its channels
SpecRecovery ==
    /\ Init
    /\ [][NextRecovery]_vars
    /\ WF_vars(\E k \in sending : SendComplete(k))
    /\ WF_vars(\E k \in ProtocolMessageSendComplete : handleSentMessage(k))

(***************************************************************************)
(* Claims about the mediator, checked under SpecMediator.                  *)
(***************************************************************************)

\* C10: a step that acknowledges an echo hash the protocol had acknowledged
\* before sends that ack and nothing else, logs no state change and no event,
\* and changes no channel, no state manager and no queued task.
RedeliveryIdempotence ==
    [][\A m \in sent' :
          (m.msg.type = "Ack" /\ m.msg.EchoHash \in acks)
              => /\ sent' = {m}
                 /\ UNCHANGED <<nodeVars, sending, chanVars, logVars, taskVars, swapVars>>]_vars

\* C10 witness: a transfer that has been forwarded was delivered once more and
\* got its ack.
RedeliveryIdempotenceWitness ==
    /\ result = "ack"
    /\ \E m \in sent : \E id \in Identifier :
           \E i \in 1..Len(Identifier2StateManagers[id]) :
               /\ m.msg.type = "Ack"
               /\ m.msg.EchoHash \in acks
               /\ Identifier2StateManagers[id][i].CurrentState = "MediatorState"
               /\ Identifier2StateManagers[id][i].Init.FromTransfer = m.msg.EchoHash.msg

(***************************************************************************)
(* Claims about the token swap, checked under SpecSwap.                    *)
(***************************************************************************)

\* C7: the transfer with which a taker answers the maker's mediated transfer
\* carries the maker's hashlock and a lock expiration strictly smaller than
\* the expiration of the maker's lock.
SwapExpiryOrdering ==
    \A m \in sent :
        (/\ m.msg.type = "MediatedTransfer"
         /\ m.msg.Identifier = TakerSwap.Identifier
         /\ m.msg.Initiator = NodeAddress
         /\ takerEnv.stateManager # 0)
            => (/\ m.msg.HashLock = takerEnv.hashlock
                /\ m.msg.Expiration < takerEnv.Expiration)

\* C8: the maker's initiator gets a SecretRequest of its hashlock only after a
\* mediated transfer of the taker with the swap's identifier, token, target,
\* amount and that hashlock has arrived; the taker's initiator gets one only
\* after a RevealSecret of the hashlock has arrived.
SwapSecretWithholding ==
    LET id == seen.accepted[1]
        h == seen.accepted[2]
    IN  /\ (seen.makerReq /\ id = MakerSwap.Identifier) => h \in seen.takerMtr
        /\ (seen.takerReq /\ id = TakerSwap.Identifier) => h \in seen.reveal

\* C6: for every mediated transfer the mediator has forwarded, the outgoing
\* lock's expiration plus the reveal timeout is at most the incoming lock's
\* expiration.
HTLCTiming ==
    \A id \in Identifier : \A i \in 1..Len(Identifier2StateManagers[id]) :
        LET mgr == Identifier2StateManagers[id][i]
        IN  (mgr.name = "mediator" /\ mgr.CurrentState = "MediatorState")
                => mgr.Expiration + RevealTimeout <= mgr.FromExpiration

\* C6 witness: a transfer has just been forwarded, and the chain had moved on
\* since the transfer arrived.
HTLCTimingWitness ==
    \E m \in sent : \E id \in Identifier :
        \E i \in 1..Len(Identifier2StateManagers[id]) :
            /\ m.msg.type = "MediatedTransfer"
            /\ m.msg.Identifier = id
            /\ Identifier2StateManagers[id][i].CurrentState = "MediatorState"
            /\ Identifier2StateManagers[id][i].Expiration = m.msg.Expiration
            /\ Identifier2StateManagers[id][i].Init.BlockNumber < blockNumber

(***************************************************************************)
(* Claims about snapshot and replay, checked under SpecReplay.             *)
(***************************************************************************)

\* C9: a restart, which applies the state changes logged after the snapshot
\* again, gives every state manager that had got its Init the state it had
\* before, the secret and hashlock of an initiator included.
ReplayDeterminism ==
    [][result' = "restored" =>
          \A id \in Identifier : \A i \in 1..Len(Identifier2StateManagers[id]) :
              Identifier2StateManagers[id][i].CurrentState # "nil"
                  => Identifier2StateManagers'[id][i] = Identifier2StateManagers[id][i]]_vars

(***************************************************************************)
(* The write-ahead log statement by statement: DirectTransferAsync with    *)
(* the positions between its writes, and writes of the db that may fail.   *)
(***************************************************************************)
\* DirectTransferAsync up to RegisterTransfer: the guard, CreateDirectTransfer,
\* Sign and RegisterTransfer on the direct channel
DirectTransferAsyncRegister(t, target, amount) ==
    LET cs == DirectChannels(t, target)
    IN  /\ pc.at = "select"
        /\ sent' = {}
        /\ IF \/ cs = {}
              \/ \E c \in cs : \/ ~CanTransfer(chans[c])
                               \/ Distributable(chans[c].our, chans[c].partner) < amount
           THEN /\ result' = "no available direct channel"
                /\ UNCHANGED <<chans, pc>>
           ELSE \E c \in cs :
                LET tr == CreateDirectTransfer(c, chans[c], amount)
                    r == RegisterTransfer(chans[c], "our", tr)
                IN  /\ NonceRoom(1)
                    /\ chans' = [chans EXCEPT ![c] = r.ch]
                    /\ result' = "running"
                    /\ pc' = [at |-> "LogStateChange", c |-> c, tr |-> tr, token |-> t,
                              target |-> target, amount |-> amount, stateChangeId |-> 0]
        /\ UNCHANGED <<h2c, disposed, logVars, blockNumber, taskVars, swapVars, dbVars, sending, recoveryVars, lifeVars, goVars, ioVars, mgrVars, closeVars, blockVars, txVars, ackVars, startVars, srsVars>>

\* stateChangeId, _ := db.LogStateChange(directTransferStateChange); saved: the
\* write succeeded; the id of a state change that was not saved is 0
DirectTransferAsyncLogStateChange(saved) ==
    LET sc == [type |-> "ActionTransferDirect", token |-> pc.token,
               node |-> PartnerOf(pc.c), amount |-> pc.amount]
        log1 == IF saved THEN LogStateChange(scLog, sc) ELSE scLog
    IN  /\ pc.at = "LogStateChange"
        /\ scLog' = log1
        /\ pc' = [pc EXCEPT !.at = "LogEvents",
                            !.stateChangeId = IF saved THEN Len(log1) ELSE 0]
        /\ UNCHANGED <<chanVars, sent, evLog, blockNumber, result, taskVars, swapVars,
                       dbVars, sending, recoveryVars, lifeVars, goVars, ioVars, mgrVars, closeVars, blockVars, txVars, ackVars, startVars, srsVars>>

\* db.LogEvents(stateChangeId, {transferSuccess}, block); its error is dropped too
DirectTransferAsyncLogEvents(saved) ==
    /\ pc.at = "LogEvents"
    /\ evLog' = IF saved
                THEN LogEvents(evLog, pc.stateChangeId,
                               <<[type |-> "EventTransferSentSuccess",
                                  target |-> pc.target, amount |-> pc.amount]>>,
                               blockNumber)
                ELSE evLog
    /\ pc' = [pc EXCEPT !.at = "SendAsync"]
    /\ UNCHANGED <<chanVars, sent, scLog, blockNumber, result, taskVars, swapVars, dbVars, sending, recoveryVars, lifeVars, goVars, ioVars, mgrVars, closeVars, blockVars, txVars, ackVars, startVars, srsVars>>

\* result = Protocol.SendAsync(partner, tr); return
DirectTransferAsyncSend ==
    /\ pc.at = "SendAsync"
    /\ sent' = {Out(PartnerOf(pc.c), pc.tr)}
    /\ result' = "sent"
    /\ pc' = [at |-> "select"]
    /\ UNCHANGED <<chanVars, logVars, blockNumber, taskVars, swapVars, dbVars, sending, recoveryVars, lifeVars, goVars, ioVars, mgrVars, closeVars, blockVars, txVars, ackVars, startVars, srsVars>>

\* the loop takes a transfer of the partner from the protocol
ReceiveAtSelect(c, d) ==
    /\ pc.at = "select"
    /\ ReceiveTransfer(c, "DirectTransfer", chans[c].partner.nonce + 1,
                       chans[c].partner.transferred + d, EmptyHash)

NextWal ==
    \/ \E t \in Token, a \in Address, n \in 1..Deposit : DirectTransferAsyncRegister(t, a, n)
    \/ \E saved \in BOOLEAN : DirectTransferAsyncLogStateChange(saved)
    \/ \E saved \in BOOLEAN : DirectTransferAsyncLogEvents(saved)
    \/ DirectTransferAsyncSend
    \/ \E c \in Channel, d \in {0, 1} : ReceiveAtSelect(c, d)

SpecWal == Init /\ [][NextWal]_vars

\* the amount of the direct transfers to the partner of c that are in the log
LoggedDirect(c) ==
    SumOver([i \in 1..Len(scLog) |->
                IF scLog[i].type = "ActionTransferDirect" /\ scLog[i].node = PartnerOf(c)
                THEN scLog[i].amount ELSE 0],
            1..Len(scLog))

\* C11: in every state the amount our end of a channel has transferred is
\* covered by the direct transfers of the log: the state change is appended
\* before the channel is changed.
WriteAheadOrdering ==
    \A c \in Channel : chans[c].our.transferred <= LoggedDirect(c)

\* C12: every event of the log carries the id of a state change that is in the
\* log.
EventLogIntegrity ==
    \A i \in 1..Len(evLog) : evLog[i].StateChangeId \in 1..Len(scLog)

(***************************************************************************)
(* The ack of a received message and the log.                              *)
(***************************************************************************)
\* C13: every echo hash the protocol has acknowledged belongs to a message
\* whose state change is in the log: the ack of a mediated transfer is released
\* only after its ActionInitMediator has been logged.
AckAfterPersistence ==
    \A e \in acks :
        \E i \in 1..Len(scLog) :
            /\ scLog[i].type = "ActionInitMediator"
            /\ scLog[i].FromTransfer = e.msg
            /\ scLog[i].FromRoute = e.sender

SendMessageSuccess(k) ==
    k \in DOMAIN ManagerState /\ ManagerState[k] = "SendMessageSuccess"

\* C15: after the process has started again, every state manager whose message
\* was unacknowledged at the restart has its message sent again and reaches
\* the state StateManagerSendMessageSuccesss.
CrashRecoveryLiveness ==
    (result = "restored") ~> (\A k \in restart.unacked : SendMessageSuccess(k))

\* C15 witness: a message that was sent again after a restart has been
\* acknowledged and its state manager has the state of a completed send.
CrashRecoveryLivenessWitness ==
    \E k \in restart.resent : SendMessageSuccess(k)

MaxRuns == 3        \* the processes started on the data directory, the first included

\* the instance has the db open: between storm.Open and db.Close or its exit
DbOpen(i) == proc[i].at \in {"opened", "running", "stopping", "snapshotted"}

\* the frame of the steps of a process that leave the service's memory alone
lifeFrame == <<chanVars, sent, logVars, blockNumber, result, taskVars, swapVars, acks, pc, recoveryVars, sending, goVars, ioVars, mgrVars, closeVars, blockVars, txVars, ackVars, startVars, srsVars>>

\* NewRaidenService, models.OpenDb of a db file that exists: bolt takes the
\* lock of the file or gives up after its timeout; the version and the close
\* flag are read. An error ends the process (SystemExit).
OpenDb(i) ==
    /\ proc[i].at = "off"
    /\ session.count < MaxRuns
    /\ IF boltLock = "free"
       THEN /\ boltLock' = i
            /\ proc' = [proc EXCEPT ![i] = [at |-> "opened", loop |-> FALSE,
                                            touched |-> TRUE, exit |-> "none"]]
            /\ session' = [session EXCEPT !.count = @ + 1,
                                          !.crashed = IsDbCrashedLastTime(meta)]
       ELSE /\ proc' = [proc EXCEPT ![i] = [at |-> "off", loop |-> FALSE,
                                            touched |-> FALSE, exit |-> "open db error"]]
            /\ session' = [session EXCEPT !.count = @ + 1]
            /\ UNCHANGED boltLock
    /\ UNCHANGED <<FileLocker, meta, snapshot, lifeFrame>>

\* MarkDbOpenedStatus: the close flag is set to false
MarkDbOpenedStatus(i) ==
    /\ DbOpen(i)
    /\ meta.close
    /\ meta' = [meta EXCEPT !.close = FALSE]
    /\ UNCHANGED <<proc, boltLock, FileLocker, session, snapshot, lifeFrame>>

\* NewRaidenService, FileLocker.TryLock: the flock of the data directory, or
\* "another instance already running" and SystemExit, which leaves the db to the
\* operating system. The maps of the new service are empty; Start runs the loop.
TryLock(i) ==
    /\ proc[i].at = "opened"
    /\ IF FileLocker = "free"
       THEN /\ FileLocker' = i
            /\ proc' = [proc EXCEPT ![i].at = "running", ![i].loop = TRUE]
            /\ Identifier2StateManagers' = [id \in Identifier |-> <<>>]
            /\ RoutesTask' = <<>>
            /\ sent' = {}
            /\ sending' = {}
            /\ ProtocolMessageSendComplete' = {}
            /\ UNCHANGED <<boltLock, session>>
       ELSE /\ proc' = [proc EXCEPT ![i].at = "off",
                                    ![i].exit = "another instance already running"]
            /\ boltLock' = "free"
            /\ UNCHANGED <<FileLocker, session, taskVars, sent, sending,
                           ProtocolMessageSendComplete>>
    /\ UNCHANGED <<meta, snapshot, chanVars, logVars, blockNumber, result, swapVars, acks,
                   pc, ManagerState, restart, goVars, ioVars, mgrVars, closeVars, blockVars, txVars, ackVars, startVars, srsVars>>

\* Stop: AlarmTask.Stop, RoutesTask.Stop, Protocol.StopAndWait, BlockChainEvents.Stop
StopTasks(i) ==
    /\ proc[i].at = "running"
    /\ proc' = [proc EXCEPT ![i].at = "stopping"]
    /\ UNCHANGED <<boltLock, FileLocker, meta, session, snapshot, lifeFrame>>

\* Stop: SaveSnapshot, the state of the service goes to the row with ID 1
StopSaveSnapshot(i) ==
    LET s == [ID |-> 1, StateChangeId |-> Len(scLog),
              State |-> <<Identifier2StateManagers>>]
    IN  /\ proc[i].at = "stopping"
        /\ proc' = [proc EXCEPT ![i].at = "snapshotted"]
        /\ snapshot' = Update(snapshot, s).bucket
        /\ UNCHANGED <<boltLock, FileLocker, meta, session, lifeFrame>>

\* Stop: db.CloseDB, the close flag is set and the db file is closed
StopCloseDB(i) ==
    /\ proc[i].at = "snapshotted"
    /\ proc' = [proc EXCEPT ![i].at = "dbClosed"]
    /\ meta' = [meta EXCEPT !.close = TRUE]
    /\ boltLock' = "free"
    /\ session' = [session EXCEPT !.lastEnd = "CloseDB"]
    /\ UNCHANGED <<FileLocker, snapshot, lifeFrame>>

\* Stop: FileLocker.Unlock; Stop returns and the process ends
StopUnlock(i) ==
    /\ proc[i].at = "dbClosed"
    /\ proc' = [proc EXCEPT ![i].at = "off", ![i].loop = FALSE, ![i].exit = "stop"]
    /\ FileLocker' = "free"
    /\ UNCHANGED <<boltLock, meta, session, snapshot, lifeFrame>>

\* the process dies (a panic, os.Exit, a kill): the operating system releases
\* the locks it holds, nothing is written
Crash(i) ==
    /\ proc[i].at \in {"opened", "running", "stopping", "snapshotted", "dbClosed"}
    /\ proc' = [proc EXCEPT ![i].at = "off", ![i].loop = FALSE, ![i].exit = "crash"]
    /\ boltLock' = IF boltLock = i THEN "free" ELSE boltLock
    /\ FileLocker' = IF FileLocker = i THEN "free" ELSE FileLocker
    /\ session' = IF boltLock = i /\ proc[i].at # "opened"
                  THEN [session EXCEPT !.lastEnd = "exit"]
                  ELSE session
    /\ UNCHANGED <<meta, snapshot, lifeFrame>>

\* loop: a channel of the select is closed, the loop returns
LoopReturn(i) ==
    /\ proc[i].loop
    /\ proc[i].at \in {"stopping", "snapshotted", "dbClosed"}
    /\ proc' = [proc EXCEPT ![i].loop = FALSE]
    /\ UNCHANGED <<boltLock, FileLocker, meta, session, snapshot, lifeFrame>>

\* the loop of an instance runs and its db is open
LoopRuns == \E i \in Instance : proc[i].loop /\ DbOpen(i)

NextLifecycle ==
    \/ \E i \in Instance : OpenDb(i)
    \/ \E i \in Instance : MarkDbOpenedStatus(i)
    \/ \E i \in Instance : TryLock(i)
    \/ \E i \in Instance : StopTasks(i)
    \/ \E i \in Instance : StopSaveSnapshot(i)
    \/ \E i \in Instance : StopCloseDB(i)
    \/ \E i \in Instance : StopUnlock(i)
    \/ \E i \in Instance : Crash(i)
    \/ \E i \in Instance : LoopReturn(i)
    \/ LoopRuns /\ StartMediatedTransfer(1, "h1", TRUE)
    \/ LoopRuns /\ handleRoutesTask

SpecLifecycle == Init /\ [][NextLifecycle]_vars

\* C17: at most one instance has the db open, an instance that runs on the db
\* holds the flock of the data directory (the lock is released only after the
\* db has been closed), and an instance that has exited with "another instance
\* already running" has neither read nor written the db.
SingleInstance ==
    /\ Cardinality({i \in Instance : DbOpen(i)}) <= 1
    /\ \A i \in Instance : DbOpen(i) /\ proc[i].at # "opened" => FileLocker = i
    /\ \A i \in Instance :
           proc[i].exit = "another instance already running" => ~proc[i].touched

\* C18: right after OpenDb, IsDbCrashedLastTime is true exactly when the
\* session before ended without CloseDB, and the close flag is false while an
\* instance runs on the db.
CleanShutdownFlag ==
    /\ \A i \in Instance :
           proc[i].at = "opened" /\ session.lastEnd # "none" =>
               (session.crashed <=> session.lastEnd = "exit")
    /\ \A i \in Instance :
           proc[i].at \in {"running", "stopping", "snapshotted"} => ~meta.close

\* C19: once Stop has written its snapshot no state change is logged (the log
\* ends where the snapshot says) and no request waits for its reply; the db is
\* closed before the flock is released.
ShutdownOrder ==
    /\ \A i \in Instance :
           proc[i].at \in {"snapshotted", "dbClosed"} =>
               /\ Len(scLog) = SnapshotStateChangeId
               /\ RoutesTask = <<>>
    /\ \A i \in Instance : proc[i].at = "dbClosed" => boltLock # i /\ FileLocker = i

(***************************************************************************)
(* The goroutines the service spawns and the loop: who touches the maps    *)
(* and the channels of the service, and while which handler.               *)
(***************************************************************************)
MaxGoroutines == 2     \* the goroutines that run beside the loop at one time

\* FindChannelByAddress: the channel of the graphs with this address, "none" for
\* an address no graph knows
FindChannelByAddress(addr) == IF addr \in DOMAIN chans THEN addr ELSE "none"

\* what the steps of the goroutines leave alone
goFrame == <<chanVars, sent, logVars, blockNumber, taskVars, swapVars, dbVars, sending, recoveryVars, lifeVars, ioVars, mgrVars, closeVars, blockVars, txVars, ackVars, startVars, srsVars>>

\* handleReq, the requests DepositChannelReqName, CloseChannelReqName and
\* SettleChannelReqName: depositChannel and closeOrSettleChannel look the
\* channel up and start a goroutine that works on it; handleReq goes on
handleReqChannel(addr, op) ==
    LET c == FindChannelByAddress(addr)
    IN  /\ pc.at = "select"
        /\ Cardinality(goroutines) < MaxGoroutines
        /\ access' = [by |-> "loop", object |-> "Token2ChannelGraph", handler |-> "handleReq"]
        /\ pc' = [at |-> "handleReq"]
        /\ IF c = "none"
           THEN /\ result' = "channel not exist"
                /\ UNCHANGED goroutines
           ELSE /\ result' = "running"
                /\ goroutines' = goroutines \cup {[fn |-> op, c |-> c]}
        /\ UNCHANGED goFrame

\* handleReq: r.result <- result, the loop is back at its select
handleReqReturn ==
    /\ pc.at = "handleReq"
    /\ pc' = [at |-> "select"]
    /\ UNCHANGED <<result, goVars, goFrame>>

\* the goroutine of depositChannel (c.ExternState.Deposit) or of
\* closeOrSettleChannel (c.MyAddress, c.ExternState.Close or Settle): it works on
\* the channel it was given, whatever the loop is doing
ChannelGoroutine(g) ==
    /\ g \in goroutines
    /\ g.fn # "CloseAndSettle"
    /\ access' = [by |-> g.fn, object |-> g.c, handler |-> pc.at]
    /\ goroutines' = goroutines \ {g}
    /\ UNCHANGED <<pc, result, goFrame>>

\* CloseAndSettle, called by a goroutine of the api: it ranges over
\* Token2ChannelGraph and collects the open channels
CloseAndSettle ==
    /\ \A g \in goroutines : g.fn # "CloseAndSettle"
    /\ Cardinality(goroutines) < MaxGoroutines
    /\ access' = [by |-> "CloseAndSettle", object |-> "Token2ChannelGraph", handler |-> pc.at]
    /\ goroutines' = goroutines \cup {[fn |-> "CloseAndSettle", c |-> "all"]}
    /\ UNCHANGED <<pc, result, goFrame>>

\* CloseAndSettle, every ten seconds and once more at its end: c.State() of a
\* channel it has collected; done: it returns
CloseAndSettleState(c, done) ==
    /\ [fn |-> "CloseAndSettle", c |-> "all"] \in goroutines
    /\ access' = [by |-> "CloseAndSettle", object |-> c, handler |-> pc.at]
    /\ goroutines' = IF done THEN goroutines \ {[fn |-> "CloseAndSettle", c |-> "all"]}
                             ELSE goroutines
    /\ UNCHANGED <<pc, result, goFrame>>

ChannelAddress == Channel \cup {"c0"}
ChannelReqName == {"Deposit", "Close", "Settle"}

NextGoroutines ==
    \/ \E addr \in ChannelAddress, op \in ChannelReqName : handleReqChannel(addr, op)
    \/ handleReqReturn
    \/ \E g \in goroutines : ChannelGoroutine(g)
    \/ CloseAndSettle
    \/ \E c \in Channel, done \in BOOLEAN : CloseAndSettleState(c, done)
    \/ \E c \in Channel : ReceiveAtSelect(c, 1)

SpecGoroutines == Init /\ [][NextGoroutines]_vars

\* C20: the maps and the channels of the service are touched from the loop
\* only: whenever another goroutine has touched one, no handler of the loop was
\* running.
LoopOnlyMutation ==
    access.by # "loop" => access.handler = "select"

(***************************************************************************)
(* The loop and its input channels: one goroutine, one select, a handler   *)
(* runs to its end before the next receive.                                *)
(***************************************************************************)
MaxInputs == 3      \* the inputs the producers put on the channels in one run

\* the buffer of an input channel: UserReqChan is made with 10, BlockNumberChan
\* with 1; the protocol hands over one received message at a time
Capacity(ch) == IF ch = "UserReqChan" THEN 10 ELSE 1

\* a receive that takes the value sent last
ReceiveLast(q) == [v |-> q[Len(q)], rest |-> SubSeq(q, 1, Len(q) - 1)]
\* v, ok = <-ch: the value sent first, and what stays in the channel
Receive(q) == [v |-> Head(q), rest |-> Tail(q)]

\* what the steps of the loop and of its producers leave alone
loopFrame == <<mgrVars, closeVars, blockVars, txVars, ackVars, startVars, srsVars, chanVars, sent, logVars, blockNumber, taskVars, swapVars, dbVars, sending, recoveryVars, lifeVars, goVars>>

\* a producer (the protocol, the alarm task's callback, the api) sends an input
\* that concerns the hashlock h
Enqueue(ch, h) ==
    LET x == [id |-> loopHist.next, h |-> h]
    IN  /\ loopHist.next <= MaxInputs
        /\ Len(inputs[ch]) < Capacity(ch)
        /\ inputs' = [inputs EXCEPT ![ch] = Append(@, x)]
        /\ loopHist' = [loopHist EXCEPT !.next = @ + 1,
                                        !.enqueued[ch] = Append(@, x)]
        /\ UNCHANGED <<pc, result, helpers, loopFrame>>

\* loop: the select receives from a channel that is ready and enters the case
loopSelect(ch) ==
    LET r == Receive(inputs[ch])
    IN  /\ pc.at = "select"
        /\ inputs[ch] # <<>>
        /\ inputs' = [inputs EXCEPT ![ch] = r.rest]
        /\ pc' = [at |-> "handler", ch |-> ch, input |-> r.v]
        /\ loopHist' = [loopHist EXCEPT !.trace = Append(@, <<"begin", r.v>>)]
        /\ UNCHANGED <<result, helpers, loopFrame>>

\* loop: the handler of the case returns, the for goes back to the select
loopHandlerReturn ==
    /\ pc.at = "handler"
    /\ loopHist' = [loopHist EXCEPT !.handled[pc.ch] = Append(@, pc.input),
                                    !.trace = Append(@, <<"end", pc.input>>)]
    /\ pc' = [at |-> "select"]
    /\ result' = "ok"
    /\ UNCHANGED <<inputs, helpers, loopFrame>>

NextLoop ==
    \/ \E ch \in InputChannel, h \in SwapHash \ {EmptyHash} : Enqueue(ch, h)
    \/ \E ch \in InputChannel : loopSelect(ch)
    \/ loopHandlerReturn

SpecLoop == Init /\ [][NextLoop]_vars

Sequential(running) == running = {}
\* the long work is spawned: the routes task is always ready to take a task
Detached(running) == TRUE

\* what the steps of the helpers leave alone
helperFrame == <<mgrVars, closeVars, blockVars, txVars, ackVars, startVars, srsVars, chanVars, sent, logVars, blockNumber, taskVars, swapVars, dbVars, lifeVars, goVars>>

\* a handler of the loop (startMediatedTransferInternal, MediateMediatedTransfer):
\* this.RoutesTask.NewTask <- &RoutesToDetect{...}; the send waits for room
handlerSendTask ==
    /\ pc.at = "handler"
    /\ pc.input.id \notin helpers.sentFor
    /\ Len(helpers.NewTask) < Capacity("NewTask")
    /\ helpers' = [helpers EXCEPT !.NewTask = Append(@, pc.input.id),
                                  !.sentFor = @ \cup {pc.input.id}]
    /\ UNCHANGED <<pc, result, inputs, loopHist, sending, recoveryVars, helperFrame>>

\* loop: Protocol.ReceivedMessageResultChan <- err, handleReq: r.result <- result;
\* the sender of the input waits for it, the loop is back at its select
HandlerReply ==
    /\ pc.at = "handler"
    /\ pc.input.id \in helpers.sentFor
    /\ loopHandlerReturn

\* the routes task takes a task from NewTask and starts the detection
RoutesTaskReceive ==
    /\ helpers.NewTask # <<>>
    /\ Detached(helpers.running)
    /\ helpers' = [helpers EXCEPT !.NewTask = Tail(@),
                                  !.running = @ \cup {Head(helpers.NewTask)}]
    /\ UNCHANGED <<pc, result, inputs, loopHist, sending, recoveryVars, helperFrame>>

\* loop: case routestask = <-RoutesTask.TaskResult, handleRoutesTask: a detection
\* has ended and hands its result over when the loop receives it; the transfer
\* goes to Protocol.SendAsync and a goroutine waits for its ack
loopTaskResult(id) ==
    /\ pc.at = "select"
    /\ id \in helpers.running
    /\ helpers' = [helpers EXCEPT !.running = @ \ {id}]
    /\ sending' = sending \cup {<<id, 1>>}
    /\ result' = "ok"
    /\ UNCHANGED <<pc, inputs, loopHist, recoveryVars, helperFrame>>

\* loop: case sentMessage = <-ProtocolMessageSendComplete
loopSentMessage(k) == pc.at = "select" /\ handleSentMessage(k)

\* the channels whose handlers start a transfer
TransferChannel == {"ReceivedMessageChan", "UserReqChan"}

NextHelpers ==
    \/ \E ch \in TransferChannel : Enqueue(ch, "h1")
    \/ \E ch \in TransferChannel : loopSelect(ch)
    \/ handlerSendTask
    \/ HandlerReply
    \/ RoutesTaskReceive
    \/ \E id \in helpers.running : loopTaskResult(id)
    \/ \E k \in sending : SendComplete(k)
    \/ \E k \in ProtocolMessageSendComplete : loopSentMessage(k)

\* the goroutines are scheduled: a handler whose send has room goes on, the
\* routes task takes a task when it is ready to
SpecHelpers == Init /\ [][NextHelpers]_vars /\ WF_vars(handlerSendTask) /\ WF_vars(HandlerReply) /\ WF_vars(RoutesTaskReceive)

TaggedMessage == {"MediatedTransfer", "SecretRequest", "Secret"}
\* initiator.NameInitiatorTransition, mediator.NameMediatorTransition,
\* target.NameTargetTransition
ManagerName == {"InitiatorTransition", "MediatorTransition", "TargetTransition"}

\* transfer.NewStateManager(..., name, ...): a manager that has sent nothing
NewStateManager(name) ==
    [Name |-> name, ManagerState |-> "Init", IsBalanceProofSent |-> FALSE,
     IsBalanceProofReceived |-> FALSE]

\* a mediator that reckons with the balance proof it sent only
BalanceProofSent(mgr) == mgr.IsBalanceProofSent

\* the mediator is finished: the balance proof of the previous hop received,
\* its own sent to the next hop
MediatorFinished(mgr) == mgr.IsBalanceProofSent /\ mgr.IsBalanceProofReceived

\* handleSentMessage, what it does to the manager of the tag
SentMessageSuccess(mgr, msg) ==
    LET m1 == [mgr EXCEPT !.ManagerState = "SendMessageSuccess"]
        m2 == [m1 EXCEPT !.IsBalanceProofSent = TRUE]
    IN  IF msg # "Secret" THEN m1
        ELSE IF m2.Name = "InitiatorTransition"
             THEN [m2 EXCEPT !.ManagerState = "TransferComplete"]
        ELSE IF m2.Name = "TargetTransition" THEN m2
        ELSE IF MediatorFinished(m2)
             THEN [m2 EXCEPT !.ManagerState = "TransferComplete"]
        ELSE m2

\* a transaction that commits without the manager
NoUpdateStateManaer(db, m, mgr) == db

\* db.UpdateStateManaer(mgr, tx), tx.Commit()
UpdateStateManaer(db, m, mgr) == [db EXCEPT ![m] = <<mgr>>]

termFrame == <<closeVars, blockVars, txVars, ackVars, startVars, srsVars, chanVars, sent, logVars, blockNumber, result, taskVars, swapVars, dbVars, sending, pc, recoveryVars, lifeVars, goVars, ioVars>>

\* a transfer begins: the state manager is made and added to the db
AddStateManager(m, name) ==
    /\ StateManagers[m] = <<>>
    /\ StateManagers' = [StateManagers EXCEPT ![m] = <<NewStateManager(name)>>]
    /\ dbStateManagers' = [dbStateManagers EXCEPT ![m] = <<NewStateManager(name)>>]
    /\ UNCHANGED <<tagged, termFrame>>

\* SendAsync(recipient, msg) with the message of a state manager
SendAsyncTagged(m, msg) ==
    /\ StateManagers[m] # <<>>
    /\ <<m, msg>> \notin tagged.sending \cup tagged.acked
    /\ tagged' = [tagged EXCEPT !.sending = @ \cup {<<m, msg>>}]
    /\ UNCHANGED <<StateManagers, dbStateManagers, termFrame>>

\* the balance proof of the previous hop arrives: the manager notes it
ReceiveBalanceProof(m) ==
    /\ StateManagers[m] # <<>>
    /\ ~StateManagers[m][1].IsBalanceProofReceived
    /\ StateManagers' = [StateManagers EXCEPT ![m] =
                             <<[@[1] EXCEPT !.IsBalanceProofReceived = TRUE]>>]
    /\ UNCHANGED <<dbStateManagers, tagged, termFrame>>

\* handleSentMessage(sentMessage): the peer has acknowledged the message
handleSentMessageTagged(m, msg) ==
    LET mgr == SentMessageSuccess(StateManagers[m][1], msg)
    IN  /\ <<m, msg>> \in tagged.sending
        /\ tagged' = [sending |-> tagged.sending \ {<<m, msg>>},
                      acked |-> tagged.acked \cup {<<m, msg>>}]
        /\ StateManagers' = [StateManagers EXCEPT ![m] = <<mgr>>]
        /\ dbStateManagers' = UpdateStateManaer(dbStateManagers, m, mgr)
        /\ UNCHANGED termFrame

NextTermination ==
    \/ \E m \in Identifier, name \in ManagerName : AddStateManager(m, name)
    \/ \E m \in Identifier, msg \in TaggedMessage : SendAsyncTagged(m, msg)
    \/ \E m \in Identifier : ReceiveBalanceProof(m)
    \/ \E m \in Identifier, msg \in TaggedMessage : handleSentMessageTagged(m, msg)

SpecTermination == Init /\ [][NextTermination]_vars

\* the manager m, in memory or as the db has it, is one of this name in this state
ManagerIs(mgrs, m, name, state) ==
    /\ mgrs[m] # <<>>
    /\ mgrs[m][1].Name = name
    /\ mgrs[m][1].ManagerState = state

\* C23: a mediator's state manager, in memory or in the db, is in state
\* TransferComplete only if it has both sent its balance proof and received
\* the one of the previous hop.
MediatorTermination ==
    \A m \in Identifier :
        /\ ManagerIs(StateManagers, m, "MediatorTransition", "TransferComplete")
               => /\ StateManagers[m][1].IsBalanceProofSent
                  /\ StateManagers[m][1].IsBalanceProofReceived
        /\ ManagerIs(dbStateManagers, m, "MediatorTransition", "TransferComplete")
               => /\ dbStateManagers[m][1].IsBalanceProofSent
                  /\ dbStateManagers[m][1].IsBalanceProofReceived

\* a mediator whose Secret has been acknowledged after the balance proof of
\* the previous hop came is complete, in memory and in the db
MediatorTerminationWitness ==
    \E m \in Identifier :
        /\ ManagerIs(StateManagers, m, "MediatorTransition", "TransferComplete")
        /\ ManagerIs(dbStateManagers, m, "MediatorTransition", "TransferComplete")
        /\ <<m, "Secret">> \in tagged.acked

\* the step handles the ack of the Secret message of the manager m
SecretAcked(m) ==
    /\ <<m, "Secret">> \notin tagged.acked
    /\ <<m, "Secret">> \in tagged'.acked

SwapTransfers == {msg \in TargetTransfers : msg.Expiration = MaxBlock + DefaultRevealTimeout}

NextSubscriptions ==
    \/ \E routes \in BOOLEAN : tokenSwapMaker(routes)
    \/ tokenSwapTaker
    \/ \E msg \in SwapTransfers, routes \in BOOLEAN : ReceiveMediatedTransfer(msg, routes)
    \/ handleRoutesTask
    \/ \E id \in Identifier, sec \in SwapSecret : InitiatorNewRoute(id, 1, sec)
    \/ \E id \in Identifier, h \in SwapHash : ReceiveSecretRequest(id, h)
    \/ \E sec \in SwapSecret : ReceiveRevealSecret(sec)

SpecSubscriptions == Init /\ [][NextSubscriptions]_vars

\* tokenSwapMaker, sentMtrHook: its result, on every path
sentMtrHookRemove == FALSE

\* the step takes the listener out of its table
SentListenerRemoved ==
    /\ "sentMtrHook" \in SentMediatedTransferListenerMap
    /\ "sentMtrHook" \notin SentMediatedTransferListenerMap'

ReceivedListenerRemoved ==
    /\ "receiveMtrHook" \in ReceivedMediatedTrasnferListenerMap
    /\ "receiveMtrHook" \notin ReceivedMediatedTrasnferListenerMap'

RevealListenerRemoved(h) ==
    /\ RevealSecretListenerMap[h] # "nil"
    /\ RevealSecretListenerMap'[h] = "nil"

\* the step runs receiveMtrHook, which returns true
receiveMtrHookRemove ==
    /\ "receiveMtrHook" \in ReceivedMediatedTrasnferListenerMap
    /\ ~makerEnv.hasReceiveTakerMediatedTransfer
    /\ makerEnv'.hasReceiveTakerMediatedTransfer

\* the step runs receiveRevealSecretHook of the hashlock h, which returns true
receiveRevealSecretHookRemove(h) ==
    /\ RevealSecretListenerMap[h] = "taker"
    /\ takerEnv.hashlock = h
    /\ ~takerEnv.hasReceiveRevealSecret
    /\ takerEnv'.hasReceiveRevealSecret

\* the maker's swap has run to completion: the taker's transfer received, the
\* secret request of its hashlock accepted
MakerComplete ==
    /\ makerEnv.hasReceiveTakerMediatedTransfer
    /\ seen.accepted = <<MakerSwap.Identifier, makerEnv.hashlock>>

\* the taker's swap has run to completion: the reveal secret received
TakerComplete == takerEnv.hasReceiveRevealSecret

\* no listener and no predicate of the hook's owner is left in any table
NoListenerOf(owner) ==
    /\ owner = "maker" => /\ SentMediatedTransferListenerMap = {}
                          /\ ReceivedMediatedTrasnferListenerMap = {}
    /\ \A h \in SwapHash : /\ SecretRequestPredictorMap[h] # owner
                            /\ RevealSecretListenerMap[h] # owner

SwapCleanedUp ==
    /\ MakerComplete => NoListenerOf("maker")
    /\ TakerComplete => NoListenerOf("taker")

\* the step: every listener leaves its table exactly when its handler returns
\* true, the sent-mediated-transfer listener exactly when sentRemove
ListenersLeave(sentRemove) ==
    /\ SentListenerRemoved <=> sentRemove
    /\ ReceivedListenerRemoved <=> receiveMtrHookRemove
    /\ \A h \in SwapHash : RevealListenerRemoved(h) <=> receiveRevealSecretHookRemove(h)

\* C25: a listener of the sent-mediated-transfer, received-mediated-transfer
\* or reveal-secret table leaves its table exactly in the step in which its
\* own handler returns true.
SubscriptionCleanup == [][ListenersLeave(sentMtrHookRemove)]_vars

\* C25 as amended: the received-mediated-transfer and the reveal-secret
\* listener leave their table exactly in the step in which their own handler
\* returns true, the maker's sent-mediated-transfer listener exactly in the
\* step in which the maker's received-mediated-transfer handler returns
\* true; and once a swap has run to completion on the maker's or on the
\* taker's side no listener and no predicate of that side is left.
SubscriptionCleanupAmended == []SwapCleanedUp /\ [][ListenersLeave(receiveMtrHookRemove)]_vars

\* the maker's swap has run to completion: its transfer sent, the taker's
\* received, the secret request accepted; the maker's tables are empty
SubscriptionCleanupWitness ==
    /\ seen.makerReq
    /\ MakerComplete
    /\ NoListenerOf("maker")
    /\ makerEnv.hashlock # EmptyHash

(***************************************************************************)
(* Direct transfers, checked under Spec.                                   *)
(***************************************************************************)
\* the lifecycle of a channel: Opened, Closed, Settled, and Withdraw and
\* CooperativeSettle, which either party enters and may cancel
Lifecycle(st) ==
    CASE st = "Opened" -> {"Withdraw", "CooperativeSettle", "Closed"}
      [] st \in {"Withdraw", "CooperativeSettle"} -> {"Opened", "Settled"}
      [] st = "Closed" -> {"Settled"}
      [] OTHER -> {}

\* handleBlockNumber, ChannelStateTransition: the chain or the partner moves
\* the channel on
ChannelStateTransition(c, st) ==
    /\ st \in Lifecycle(chans[c].state)
    /\ chans' = [chans EXCEPT ![c].state = st]
    /\ sent' = {}
    /\ result' = "none"
    /\ UNCHANGED <<others, h2c, disposed, scLog, evLog, blockNumber>>

ChannelState == {"Opened", "Withdraw", "CooperativeSettle", "Closed", "Settled"}

\* direct transfers of the user and transfers of both ends, while the
\* channels go through their lifecycle
NextDirect ==
    \/ \E t \in Token, a \in Address, n \in 1..Deposit : DirectTransferAsync(t, a, n)
    \/ \E c \in Channel, h \in Hash : SendMediatedTransfer(c, h)
    \/ \E c \in Channel, d \in {-1, 1}, h \in Hash :
       \E n \in {chans[c].partner.nonce - 1, chans[c].partner.nonce + 1} :
           ReceiveTransfer(c, "DirectTransfer", n, chans[c].partner.transferred + d, h)
    \/ \E c \in Channel, h \in Hash :
       \E n \in {chans[c].partner.nonce - 1, chans[c].partner.nonce + 1} :
           ReceiveTransfer(c, "MediatedTransfer", n, chans[c].partner.transferred, h)
    \/ \E c \in Channel, st \in ChannelState : ChannelStateTransition(c, st)

SpecDirect == Init /\ [][NextDirect]_vars

\* no channel of the token with the target can pay the amount
NoAvailableDirectChannel(t, target, amount) ==
    \A c \in Channel :
        (TokenOf(c) = t /\ PartnerOf(c) = target)
            => \/ chans[c].state # "Opened"
               \/ Distributable(chans[c].our, chans[c].partner) < amount
               \/ Distributable(chans[c].our, chans[c].partner) <= 0

\* the step is the call DirectTransferAsync(t, target, amount): its result is
\* an error exactly when no direct channel can pay, and then nothing has changed
DirectTransferResult(t, target, amount) ==
    DirectTransferAsync(t, target, amount)
        => /\ (result' # "sent") <=> NoAvailableDirectChannel(t, target, amount)
           /\ result' # "sent" => /\ UNCHANGED <<chans, scLog, evLog>>
                                  /\ sent' = {}
           /\ result' = "sent" => \E o \in sent' : o.to = target

NoNewTransfer(e, f) ==
    /\ f.nonce = e.nonce
    /\ f.transferred = e.transferred
    /\ (f.pending \cup f.unclaimed) \subseteq (e.pending \cup e.unclaimed)

\* the step registers no transfer on the channel c and hands none of c to the
\* protocol
NoTransferOn(c) ==
    /\ NoNewTransfer(chans[c].our, chans'[c].our)
    /\ NoNewTransfer(chans[c].partner, chans'[c].partner)
    /\ \A o \in sent' :
           o.msg.channel = c => o.msg.type \notin {"DirectTransfer", "MediatedTransfer"}

\* C27: on a channel whose state is Withdraw, CooperativeSettle, Closed or
\* Settled no step registers a direct transfer or a new lock, of either end,
\* and none sends a transfer of that channel, whatever the order of the user's
\* requests, the partners' messages and the events of the chain.
OnlyOpenedAdmits ==
    [][\A c \in Channel : chans[c].state # "Opened" => NoTransferOn(c)]_vars

\* a direct transfer has been refused on a channel that is in Withdraw and
\* could pay, after a transfer on it while it was open
OnlyOpenedAdmitsWitness ==
    /\ result = "no available direct channel"
    /\ \E c \in Channel :
           /\ chans[c].state = "Withdraw"
           /\ chans[c].our.nonce = 1
           /\ Distributable(chans[c].our, chans[c].partner) = 1
    /\ \E c \in Channel : chans[c].state = "Opened"

(***************************************************************************)
(* Close and settle: the goroutine of closeOrSettleChannel and the loop.   *)
(***************************************************************************)
closeFrame == <<h2c, disposed, sent, logVars, blockNumber, taskVars, swapVars, dbVars, sending, recoveryVars, lifeVars, access, ioVars, mgrVars, blockVars, txVars, ackVars, startVars, srsVars>>

\* the loop, handling a message of the partner of c: ch.RegisterTransfer takes
\* the partner's next balance proof into the channel in memory
loopRegisterTransfer(c) ==
    LET msg == [type |-> "DirectTransfer", sender |-> PartnerOf(c), channel |-> c,
                nonce |-> chans[c].partner.nonce + 1,
                transferred |-> chans[c].partner.transferred + 1, hash |-> EmptyHash]
        r == RegisterTransfer(chans[c], "partner", msg)
    IN  /\ pc.at = "select"
        /\ r.ok
        /\ NonceRoom(1)
        /\ chans' = [chans EXCEPT ![c] = r.ch]
        /\ pc' = [at |-> "registered", c |-> c]
        /\ UNCHANGED <<result, dbChannels, goroutines, chain, closeFrame>>

\* the same handler, later: db.UpdateChannelNoTx(channel.NewChannelSerialization(ch))
loopUpdateChannelNoTx ==
    /\ pc.at = "registered"
    /\ dbChannels' = [dbChannels EXCEPT ![pc.c] = chans[pc.c].partner.nonce]
    /\ pc' = [at |-> "select"]
    /\ result' = "ok"
    /\ UNCHANGED <<chans, goroutines, chain, closeFrame>>

\* closeOrSettleChannel(channelAddress, op), a request the loop handles
closeOrSettleChannel(addr, op) ==
    LET c == FindChannelByAddress(addr)
    IN  /\ pc.at = "select"
        /\ Cardinality(goroutines) + Cardinality(chain) < MaxGoroutines
        /\ IF c = "none"
           THEN /\ result' = "channel not exist"
                /\ UNCHANGED goroutines
           ELSE /\ result' = "running"
                /\ goroutines' = goroutines \cup
                       {[fn |-> op, c |-> c, at |-> "go", proof |-> 0, accepted |-> 0]}
        /\ UNCHANGED <<pc, chans, dbChannels, chain, closeFrame>>

\* the goroutine: c2, _ := this.db.GetChannelByAddress(c.MyAddress);
\* proof := c2.PartnerBalanceProof. accepted: the balance proof the channel in
\* memory holds at this moment
GetChannelByAddress(g) ==
    /\ g \in goroutines
    /\ g.at = "go"
    /\ goroutines' = (goroutines \ {g}) \cup
           {[g EXCEPT !.at = "proof", !.proof = dbChannels[g.c],
                      !.accepted = chans[g.c].partner.nonce]}
    /\ UNCHANGED <<pc, result, chans, dbChannels, chain, closeFrame>>

\* the goroutine: c.ExternState.Close(proof) or c.ExternState.Settle()
ExternStateCloseOrSettle(g) ==
    /\ g \in goroutines
    /\ g.at = "proof"
    /\ chain' = chain \cup {[op |-> g.fn, c |-> g.c, proof |-> g.proof,
                              accepted |-> g.accepted]}
    /\ goroutines' = goroutines \ {g}
    /\ UNCHANGED <<pc, result, chans, dbChannels, closeFrame>>

NextClose ==
    \/ \E c \in Channel : loopRegisterTransfer(c)
    \/ loopUpdateChannelNoTx
    \/ \E addr \in ChannelAddress, op \in {"Close", "Settle"} : closeOrSettleChannel(addr, op)
    \/ \E g \in goroutines : GetChannelByAddress(g)
    \/ \E g \in goroutines : ExternStateCloseOrSettle(g)

SpecClose == Init /\ [][NextClose]_vars

\* C28: the balance proof a close submits to the chain is the most recent one
\* of the partner that the node had accepted on the channel when the close
\* task read the channel's row, also when the loop registers a transfer of
\* the partner while the task runs; a request for an channel the node does
\* not know starts no task and submits nothing.
CloseWithLatestProof ==
    /\ \A tx \in chain : tx.op = "Close" => tx.proof = tx.accepted
    /\ \A tx \in chain : tx.c \in Channel
    /\ \A g \in goroutines : g.c \in Channel

(***************************************************************************)
(* Writes that fail, checked under SpecWal.                                *)
(***************************************************************************)
\* the step is a write of DirectTransferAsync that has failed: the handler has
\* gone on and the log has not grown
WriteFailed ==
    \/ pc.at = "LogStateChange" /\ pc' # pc /\ scLog' = scLog
    \/ pc.at = "LogEvents" /\ pc' # pc /\ evLog' = evLog

\* C29: a write to the log that fails ends the process: the handler does not
\* go on to log events under the id the failed write returned, nor to send
\* the message.
FatalPersistenceFailure == [][WriteFailed => ~Alive']_vars

(***************************************************************************)
(* The block number: the callback of the AlarmTask, the loop and the db.   *)
(***************************************************************************)
MaxHeight == 6     \* the blocks the AlarmTask reports in one run
blockFrame == <<chanVars, sent, logVars, taskVars, swapVars, dbVars, sending, recoveryVars, lifeVars, goVars, loopHist, helpers, mgrVars, closeVars, txVars, ackVars, startVars, srsVars>>

\* the callback Start registers, called with a new block:
\* this.db.SaveLatestBlockNumber(number)
SaveLatestBlockNumber(number) ==
    /\ alarm.at = "wait"
    /\ number > alarm.number
    /\ number <= MaxHeight
    /\ LatestBlockNumber' = number
    /\ alarm' = [alarm EXCEPT !.at = "setBlockNumber", !.number = number]
    /\ UNCHANGED <<pc, result, blockNumber, dispatched, inputs, blockFrame>>

\* the callback: return this.setBlockNumber(number), this.BlockNumberChan <- blocknumber
setBlockNumber ==
    /\ alarm.at = "setBlockNumber"
    /\ Len(inputs["BlockNumberChan"]) < Capacity("BlockNumberChan")
    /\ inputs' = [inputs EXCEPT !["BlockNumberChan"] = Append(@, alarm.number)]
    /\ alarm' = [alarm EXCEPT !.at = "wait"]
    /\ UNCHANGED <<pc, result, blockNumber, dispatched, LatestBlockNumber, blockFrame>>

\* loop: case blockNumber, ok = <-this.BlockNumberChan: handleBlockNumber stores
\* the number and dispatches the Block state change to all state managers and
\* all channels
loopBlockNumber ==
    /\ pc.at = "select"
    /\ inputs["BlockNumberChan"] # <<>>
    /\ inputs' = [inputs EXCEPT !["BlockNumberChan"] = Tail(@)]
    /\ blockNumber' = Head(inputs["BlockNumberChan"])
    /\ dispatched' = Head(inputs["BlockNumberChan"])
    /\ result' = "ok"
    /\ UNCHANGED <<pc, LatestBlockNumber, alarm, blockFrame>>

\* the process dies and is started again: the channel is new, Start stores
\* the AlarmTask's last block number and takes the db's number as the last
\* block handled
StartAfterCrash ==
    /\ alarm.crashes < MaxCrashes
    /\ inputs' = [inputs EXCEPT !["BlockNumberChan"] = <<>>]
    /\ alarm' = [alarm EXCEPT !.at = "wait", !.crashes = @ + 1]
    /\ blockNumber' = alarm.number
    /\ result' = "restored"
    /\ UNCHANGED <<pc, LatestBlockNumber, dispatched, blockFrame>>

NextBlock ==
    \/ \E number \in 1..MaxHeight : SaveLatestBlockNumber(number)
    \/ setBlockNumber
    \/ loopBlockNumber
    \/ StartAfterCrash

SpecBlock == Init /\ [][NextBlock]_vars

\* C30: the latest block number the db holds never exceeds the highest block
\* whose Block state change the loop has dispatched to the state managers and
\* the channels.
ProcessedBeforePersisted == LatestBlockNumber <= dispatched

(***************************************************************************)
(* The TX-info records of the contract calls (models/stormdb).             *)
(***************************************************************************)
MaxCalls == 3      \* the calls of the TX-info dao in one run
TXHash == {"x1", "x2"}
TXInfoType == {"TXInfoTypeDeposit", "TXInfoTypeWithdraw"}
TXInfoStatus == {"TXInfoStatusPending", "TXInfoStatusSuccess", "TXInfoStatusFailed"}
\* txParams: nil, a string, a value json.Marshal encodes, a value it refuses
TXParams == {"nil", "string", "struct", "unsupported"}
txFrame == <<chanVars, sent, logVars, blockNumber, result, taskVars, swapVars, dbVars, sending, pc, recoveryVars, lifeVars, goVars, ioVars, mgrVars, closeVars, blockVars, ackVars, startVars, srsVars>>

\* txParamsStr: "" for nil, the string itself, string(buf) of json.Marshal
TXParamsStr(txParams) ==
    CASE txParams = "nil" -> ""
      [] txParams = "string" -> "s"
      [] OTHER -> "{json}"

\* model.GetChannelByAddress(channelIdentifier): the channel's row, <<>> with
\* err2 for a channel the db does not hold
ChannelRow(channelIdentifier) ==
    IF channelIdentifier \in Channel
    THEN <<[OpenBlockNumber |-> IF channelIdentifier = "c1" THEN 1 ELSE 2]>>
    ELSE <<>>

\* openBlockNumber as NewPendingTXInfo stores it
PendingOpenBlockNumber(channelIdentifier, openBlockNumber) ==
    IF openBlockNumber = 0 /\ channelIdentifier # EmptyHash
       /\ ChannelRow(channelIdentifier) # <<>>
    THEN ChannelRow(channelIdentifier)[1].OpenBlockNumber
    ELSE openBlockNumber

\* time.Now().Unix(): the calls are made a second apart
Now(t) == t = txCall.now + 1

\* NewPendingTXInfo: the record of a call of our own, saved under its TXHash;
\* a value json.Marshal refuses and a failing db.Save return the error
NewPendingTXInfo(tx, txType, channelIdentifier, openBlockNumber, txParams, t, saveFails) ==
    /\ txCall.n < MaxCalls
    /\ Now(t)
    /\ LET marshalFails == txParams = "unsupported"
           txInfo == [TXHash |-> tx,
                      ChannelIdentifier |-> channelIdentifier,
                      OpenBlockNumber |->
                          PendingOpenBlockNumber(channelIdentifier, openBlockNumber),
                      Type |-> txType,
                      IsSelfCall |-> TRUE,
                      TXParams |-> TXParamsStr(txParams),
                      Status |-> "TXInfoStatusPending",
                      PackBlockNumber |-> 0,
                      CallTime |-> t,
                      PackTime |-> 0]
       IN  /\ txInfos' = IF marshalFails \/ saveFails THEN txInfos
                         ELSE [txInfos EXCEPT ![tx] = <<txInfo>>]
           /\ txCall' = [n |-> txCall.n + 1, op |-> "NewPendingTXInfo", TXHash |-> tx,
                         status |-> "TXInfoStatusPending", pack |-> 0,
                         err |-> marshalFails \/ saveFails,
                         now |-> t]
    /\ UNCHANGED txFrame

\* the update sets OpenBlockNumber for any deposit
AnyDeposit(tis) == tis.Type = "TXInfoTypeDeposit"

\* if tis.OpenBlockNumber == 0 && tis.Type == models.TXInfoTypeDeposit
FirstDeposit(tis) == tis.OpenBlockNumber = 0 /\ tis.Type = "TXInfoTypeDeposit"

\* UpdateTXInfoStatus: db.One finds the row or returns the error; the row is
\* saved with the status, the pack block and the pack time
UpdateTXInfoStatus(txHash, status, packBlockNumber, t, saveFails) ==
    /\ txCall.n < MaxCalls
    /\ Now(t)
    /\ LET found == txInfos[txHash] # <<>>
           tis == txInfos[txHash][1]
           updated == [tis EXCEPT !.Status = status,
                                  !.PackBlockNumber = packBlockNumber,
                                  !.PackTime = t,
                                  !.OpenBlockNumber =
                                      IF FirstDeposit(tis) THEN packBlockNumber ELSE @]
       IN  /\ txInfos' = IF found /\ ~saveFails
                         THEN [txInfos EXCEPT ![txHash] = <<updated>>]
                         ELSE txInfos
           /\ txCall' = [n |-> txCall.n + 1, op |-> "UpdateTXInfoStatus",
                         TXHash |-> txHash, status |-> status,
                         pack |-> packBlockNumber, err |-> ~found \/ saveFails,
                         now |-> t]
    /\ UNCHANGED txFrame

NextTXInfo ==
    \/ \E tx \in TXHash, txType \in TXInfoType, c \in {EmptyHash, "c1", "c0"},
          open \in 0..1, txParams \in TXParams, t \in 1..(MaxCalls + 1), saveFails \in BOOLEAN :
          NewPendingTXInfo(tx, txType, c, open, txParams, t, saveFails)
    \/ \E txHash \in TXHash, status \in TXInfoStatus \ {"TXInfoStatusPending"},
          pack \in 1..2, t \in 1..(MaxCalls + 1), saveFails \in BOOLEAN :
          UpdateTXInfoStatus(txHash, status, pack, t, saveFails)

SpecTXInfo == Init /\ [][NextTXInfo]_vars

\* the call just made, and the rows it did not name
TXCalled(op) == txCall'.n = txCall.n + 1 /\ txCall'.op = op
OtherRowsKept == \A h \in TXHash \ {txCall'.TXHash} : txInfos'[h] = txInfos[h]

\* a successful NewPendingTXInfo leaves a row Pending with IsSelfCall
PendingStored ==
    TXCalled("NewPendingTXInfo") /\ ~txCall'.err
        => /\ txInfos'[txCall'.TXHash] # <<>>
           /\ txInfos'[txCall'.TXHash][1].Status = "TXInfoStatusPending"
           /\ txInfos'[txCall'.TXHash][1].IsSelfCall
           /\ OtherRowsKept

\* a successful UpdateTXInfoStatus changes the fields of `changed' at most,
\* and OpenBlockNumber only of a deposit that had none
StatusUpdated(changed) ==
    TXCalled("UpdateTXInfoStatus") /\ ~txCall'.err
        => /\ txInfos[txCall'.TXHash] # <<>>
           /\ txInfos'[txCall'.TXHash] # <<>>
           /\ LET old == txInfos[txCall'.TXHash][1]
                  new == txInfos'[txCall'.TXHash][1]
              IN  /\ new.Status = txCall'.status
                  /\ new.PackBlockNumber = txCall'.pack
                  /\ new.OpenBlockNumber =
                        IF old.OpenBlockNumber = 0 /\ old.Type = "TXInfoTypeDeposit"
                        THEN new.PackBlockNumber ELSE old.OpenBlockNumber
                  /\ \A f \in DOMAIN old \ (changed \cup {"OpenBlockNumber"}) :
                        new[f] = old[f]
           /\ OtherRowsKept

\* UpdateTXInfoStatus of a hash without a row returns the error and writes nothing
UnknownRefused ==
    TXCalled("UpdateTXInfoStatus") /\ txInfos[txCall'.TXHash] = <<>>
        => txCall'.err /\ txInfos' = txInfos

\* C31 as stated: NewPendingTXInfo stores a row with status Pending and
\* IsSelfCall true; UpdateTXInfoStatus of a stored hash sets the status and the
\* pack block number (and OpenBlockNumber to the pack block only when it was 0
\* and the type is deposit) and leaves every other field unchanged;
\* UpdateTXInfoStatus of an unknown hash returns an error and creates or
\* changes no row.
TXInfoRecords == [][PendingStored /\ StatusUpdated({"Status", "PackBlockNumber"}) /\ UnknownRefused]_vars

\* C31 as amended: the same, with PackTime among the fields UpdateTXInfoStatus
\* sets.
TXInfoRecordsAmended == [][PendingStored /\ StatusUpdated({"Status", "PackBlockNumber", "PackTime"}) /\ UnknownRefused]_vars

\* a deposit's second update has kept the OpenBlockNumber the first update set
TXInfoRecordsWitness ==
    /\ txCall.op = "UpdateTXInfoStatus"
    /\ txCall.n = MaxCalls
    /\ txInfos["x1"] # <<>>
    /\ txInfos["x1"][1].Type = "TXInfoTypeDeposit"
    /\ txInfos["x1"][1].Status = "TXInfoStatusSuccess"
    /\ txInfos["x1"][1].OpenBlockNumber # txInfos["x1"][1].PackBlockNumber
    /\ txInfos["x1"][1].CallTime < txInfos["x1"][1].PackTime
    /\ txInfos["x2"] = <<>>

(***************************************************************************)
(* The registry of the hashlocks: RegisterChannelForHashlock, HandleSecret.*)
(***************************************************************************)
\* locks of both ends are created and registered, secrets are handled and
\* registered, channels are closed
NextRegistry ==
    \/ \E t \in Token, s \in Secret : HandleSecret(t, s, NoMsg)
    \/ \E t \in Token, s \in Secret : \E m \in PartnerSecretMsgs(s) : HandleSecret(t, s, m)
    \/ \E s \in Secret : RegisterSecret(s)
    \/ \E c \in Channel, h \in Hash : SendMediatedTransfer(c, h)
    \/ \E c \in Channel, h \in Hash :
       \E n \in {chans[c].partner.nonce - 1, chans[c].partner.nonce + 1} :
           ReceiveTransfer(c, "MediatedTransfer", n, chans[c].partner.transferred, h)
    \/ \E c \in Channel : ChannelClosed(c)

SpecRegistry == Init /\ [][NextRegistry]_vars

\* the step takes c off the list of (t, h)
Unregistered(t, h, c) == InSeq(h2c[t][h], c) /\ ~InSeq(h2c'[t][h], c)

\* the step registers a balance proof of the end that releases its lock h
LockReleased(e, f, h) == IsKnown(e, h) /\ ~IsKnown(f, h) /\ f.nonce # e.nonce

\* the step only registers the secret of the partner's lock h on c
SecretOnly(c, h) ==
    /\ h \in chans[c].partner.pending
    /\ h \in chans'[c].partner.unclaimed
    /\ chans'[c].partner.nonce = chans[c].partner.nonce

\* the step releases the lock h on c, by our balance proof or the partner's
Released(c, h) ==
    \/ LockReleased(chans[c].our, chans'[c].our, h)
    \/ LockReleased(chans[c].partner, chans'[c].partner, h)

\* a channel leaves the list of (t, h) only released, never with the secret
\* registered only
RemovedOnlyReleased(t, h) ==
    \A c \in Channel :
        /\ Unregistered(t, h, c) => Released(c, h)
        /\ SecretOnly(c, h) => ~Unregistered(t, h, c)

\* HandleSecret without an error leaves the list without the released
\* channels, and no entry exactly when all its channels left
HandleSecretRewrites(t, h) ==
    \A s \in Secret : \A m \in PartnerSecretMsgs(s) \cup {NoMsg} :
        (Sha3(s) = h /\ HandleSecret(t, s, m) /\ result' = "ok")
            => /\ h2c'[t][h] = SelectSeq(h2c[t][h], LAMBDA c : ~Released(c, h))
               /\ h2c'[t][h] = <<>>
                     <=> \A c \in Channel : InSeq(h2c[t][h], c) => Unregistered(t, h, c)

\* C32: a channel leaves the list registered for (token, hashlock) only in a
\* step that released the lock on it, by our unlock balance proof or by the
\* partner's Secret balance proof, and never in a step that only registered
\* the secret; HandleSecret, when it returns no error, leaves the list without
\* the released channels, and the entry is gone exactly when none is left.
RegistryRemovalRule == [][\A t \in Token, h \in Hash : RemovedOnlyReleased(t, h) /\ HandleSecretRewrites(t, h)]_vars

\* HandleSecret has unlocked our lock on c1 and taken c1 off the list, and has
\* registered the secret of the partner's lock on c2, which stays registered
RegistryRemovalRuleWitness ==
    /\ result = "ok"
    /\ h2c["T1"]["h1"] = <<"c2">>
    /\ chans["c1"].our.transferred = LockAmount
    /\ "h1" \in chans["c2"].partner.unclaimed

(***************************************************************************)
(* The direct transfer and its acknowledgement.                            *)
(***************************************************************************)
\* Protocol.SendAsync's result: the partner acknowledges the direct transfer
\* the handler has handed to the protocol
DirectTransferAcked(o) ==
    /\ o \in sent
    /\ o.msg.type = "DirectTransfer"
    /\ o.msg \notin acked
    /\ acked' = acked \cup {o.msg}
    /\ UNCHANGED <<chanVars, sent, logVars, blockNumber, result, taskVars, swapVars, dbVars, sending, pc, recoveryVars, lifeVars, goVars, ioVars, mgrVars, closeVars, blockVars, txVars, startVars, srsVars>>

NextAck ==
    \/ NextWal
    \/ \E o \in sent : DirectTransferAcked(o)

SpecAck == Init /\ [][NextAck]_vars

\* the success events of direct transfers in the event log
SentSuccessEvents ==
    {i \in 1..Len(evLog) : evLog[i].EventObject.type = "EventTransferSentSuccess"}

\* C33: the event log holds no more EventTransferSentSuccess of direct
\* transfers than the partners have acknowledged direct-transfer messages: no
\* success event is recorded for a message that has not been acked.
SuccessAfterAck == Cardinality(SentSuccessEvents) <= Cardinality(acked)

(***************************************************************************)
(* The start of a mediated transfer: the state manager, the result handle, *)
(* the row of the db and the routes task; the block ticks that reach the   *)
(* state managers meanwhile.                                               *)
(***************************************************************************)
startFrame == <<chanVars, logVars, swapVars, dbVars, sending, pc, ProtocolMessageSendComplete, restart, lifeVars, goVars, ioVars, mgrVars, closeVars, blockVars, txVars, ackVars, srsVars>>

\* the handle is appended whether the transfer has a route or not
AppendResultAlways(results, identifier, tag, ok) == [results EXCEPT ![identifier] = Append(@, tag)]

\* startMediatedTransferInternal past the return of `no available route':
\* results = append(results, result), with result.Tag = target
AppendResult(results, identifier, tag, ok) == IF ok THEN [results EXCEPT ![identifier] = Append(@, tag)] ELSE results

\* db.AddStateManager(stateManager): the row of a manager that has sent nothing
AddStateManagerRow(db, key) == [k \in DOMAIN db \cup {key} |-> IF k = key THEN "Init" ELSE db[k]]

\* StartTakerMediatedTransfer: startMediatedTransferInternal as the user and
\* the token swap call it, with its result handle and its row in the db
StartTakerMediatedTransfer(id, hashlock, expiration, routes) ==
    LET r == startMediatedTransferInternal(
                 Identifier2StateManagers, RoutesTask, routes, "T1", "B", 1,
                 id, hashlock, expiration, blockNumber)
    IN  /\ Alive
        /\ ManagerCount(Identifier2StateManagers) < MaxStarts
        /\ Identifier2StateManagers' = r.mgrs
        /\ Identifier2Results' = AppendResult(Identifier2Results, id, "B", r.ok)
        /\ ManagerState' = IF r.ok THEN AddStateManagerRow(ManagerState, <<id, r.idx>>)
                           ELSE ManagerState
        /\ RoutesTask' = r.tasks
        /\ result' = IF r.ok THEN "ok" ELSE "no available route"
        /\ sent' = {}
        /\ UNCHANGED <<blockNumber, dispatchLog, startFrame>>

\* the state managers of all identifiers, as <<identifier, index>>
AllTasks == {<<id, i>> : id \in Identifier, i \in 1..MaxStarts}

\* handleBlockNumber: BlockNumber.Store(blocknumber), then
\* LogAndDispatchToAllTasks(statechange): the Block state change goes to every
\* state manager of Identifier2StateManagers; init: the manager has had its
\* Init state change. A manager without a state ignores the block.
LogAndDispatchToAllTasks ==
    /\ Alive
    /\ blockNumber < MaxBlock
    /\ blockNumber' = blockNumber + 1
    /\ dispatchLog' = dispatchLog \cup
           {[Identifier |-> k[1], idx |-> k[2], type |-> "Block",
             init |-> Identifier2StateManagers[k[1]][k[2]].Init # NoMsg] :
               k \in {j \in AllTasks : j[2] <= Len(Identifier2StateManagers[j[1]])}}
    /\ sent' = {}
    /\ result' = "ok"
    /\ UNCHANGED <<chanVars, logVars, taskVars, swapVars, dbVars, sending, pc, recoveryVars, lifeVars, goVars, ioVars, mgrVars, closeVars, blockVars, txVars, ackVars, srsVars, Identifier2Results>>

NextStart ==
    \/ \E id \in Identifier, h \in {EmptyHash, "h1"}, routes \in BOOLEAN :
           StartTakerMediatedTransfer(id, h, 0, routes)
    \/ /\ ManagerCount(Identifier2StateManagers) < MaxStarts
       /\ \E msg \in ForwardTransfers : Deliver(msg, "B", {"C"})
    \/ handleRoutesTask
    \/ LogAndDispatchToAllTasks

SpecStart == Init /\ [][NextStart]_vars

\* a start without a route returns the error and leaves the maps, the task
\* queue and the db as they are
StartRefused(id, h, e) ==
    StartTakerMediatedTransfer(id, h, e, FALSE)
        => /\ result' = "no available route"
           /\ UNCHANGED <<Identifier2StateManagers, Identifier2Results, RoutesTask>>
           /\ UNCHANGED <<ManagerState, logVars, dbVars, dbStateManagers>>

\* C34: when no route to the target is available, the start of a mediated
\* transfer returns the error `no available route', registers no state
\* manager, no result handle and no route-detection task, and writes nothing
\* to the db.
NoRouteFailure == [][\A id \in Identifier, h \in {EmptyHash, "h1"} : StartRefused(id, h, 0)]_vars

\* a transfer has been started, and a second start has found no route
NoRouteFailureWitness ==
    /\ result = "no available route"
    /\ ManagerCount(Identifier2StateManagers) = 1
    /\ \E id \in Identifier : Len(Identifier2Results[id]) = 1 /\ <<id, 1>> \in DOMAIN ManagerState

(***************************************************************************)
(* HandleSecret: the unlocks it registers and the messages it sends.       *)
(***************************************************************************)
\* the step hands our Secret message for the lock h on c to the protocol
UnlockSent(c, h) ==
    \E o \in sent' : /\ o.to = PartnerOf(c)
                     /\ o.msg.type = "Secret"
                     /\ o.msg.channel = c
                     /\ o.msg.hash = h
                     /\ o.msg.nonce = chans'[c].our.nonce

\* the step sends messages of HandleSecret only with the list of the hashlock
\* rewritten, and sends the Secret of every unlock it registered on our end
UnlocksDelivered(t, h) ==
    \A s \in Secret : \A m \in PartnerSecretMsgs(s) \cup {NoMsg} :
        (Sha3(s) = h /\ HandleSecret(t, s, m))
            => /\ sent' # {} => h2c'[t][h] = SelectSeq(h2c[t][h], LAMBDA c : ~Released(c, h))
               /\ \A c \in Channel :
                     LockReleased(chans[c].our, chans'[c].our, h) => UnlockSent(c, h)

\* C35: HandleSecret sends its messages only after the channels of the
\* hashlock have been updated and the registry has been rewritten, and every
\* channel on which it registered our unlock balance proof gets the Secret
\* message sent to its partner, also when a later channel of the list fails.
UnlockDelivery == [][\A t \in Token, h \in Hash : UnlocksDelivered(t, h)]_vars

(***************************************************************************)
(* The state managers after their completion, checked under                *)
(* SpecTermination.                                                        *)
(***************************************************************************)
\* C36: once a state manager's ManagerState is TransferComplete, no step that
\* handles the acknowledgement of a message tagged with this manager changes
\* it to another state.
CompletedStayCompleted == [][\A m \in Identifier : (StateManagers[m] # <<>> /\ StateManagers[m][1].ManagerState = "TransferComplete") => StateManagers'[m][1].ManagerState = "TransferComplete"]_vars

(***************************************************************************)
(* The first state change of a state manager, checked under SpecStart.     *)
(***************************************************************************)
\* every task of the routes queue points to a state manager that is
\* registered, and a manager has its Init only once its task has left the queue
RegisteredBeforeQueued ==
    \A i \in 1..Len(RoutesTask) :
        /\ RoutesTask[i].idx <= Len(Identifier2StateManagers[RoutesTask[i].Identifier])
        /\ Identifier2StateManagers[RoutesTask[i].Identifier][RoutesTask[i].idx].Init = NoMsg

\* C37: the state manager of an initiator or a mediator is registered under
\* its identifier before its route-detection task is queued, its Init state
\* change is dispatched only when the task's result arrives, and no other
\* state change, a Block tick among them, is dispatched to the manager before
\* its Init state change.
InitFirst == RegisteredBeforeQueued /\ \A d \in dispatchLog : d.init

(***************************************************************************)
(* The direct transfer and its registration, checked under SpecDirect.     *)
(***************************************************************************)
\* the step has registered the direct transfer msg on our end of its channel
DirectRegistered(msg, amount) ==
    /\ chans[msg.channel].our.nonce + 1 = msg.nonce
    /\ chans'[msg.channel].our.nonce = msg.nonce
    /\ chans'[msg.channel].our.transferred = msg.transferred
    /\ chans'[msg.channel].our.transferred = chans[msg.channel].our.transferred + amount

\* a call of DirectTransferAsync that writes to a log or sends a message has
\* registered the transfer it sends
SentOnlyRegistered(t, target, amount) ==
    (DirectTransferAsync(t, target, amount) /\ (sent' # {} \/ scLog' # scLog \/ evLog' # evLog))
        => /\ scLog' # scLog /\ evLog' # evLog
           /\ \E o \in sent' : o.msg.type = "DirectTransfer" /\ DirectRegistered(o.msg, amount)
           /\ \A o \in sent' : o.msg.type = "DirectTransfer" /\ DirectRegistered(o.msg, amount)

NoDuplicates(list) == \A i, j \in 1..Len(list) : list[i] = list[j] => i = j

\* the step registers the channel c for (t, h): our lock is created on it, or
\* the partner's lock is accepted
Registers(t, c, h) ==
    /\ TokenOf(c) = t
    /\ \/ h \in chans'[c].our.pending \ chans[c].our.pending
       \/ h \in chans'[c].partner.pending \ chans[c].partner.pending

\* C39: the list registered for a (token, hashlock) never holds a channel
\* twice, and a step that registers a channel the list already holds leaves
\* the registry unchanged.
RegistryNoDuplicates == [](\A t \in Token, h \in Hash : NoDuplicates(h2c[t][h])) /\ [][\A t \in Token, h \in Hash, c \in Channel : (Registers(t, c, h) /\ InSeq(h2c[t][h], c)) => h2c' = h2c]_vars

\* our lock has been unlocked on c1 while the secret was only registered on c2,
\* and a new lock of the same hash on c1 has put c1 behind c2 in the list
RegistryNoDuplicatesWitness ==
    /\ h2c["T1"]["h1"] = <<"c2", "c1">>
    /\ chans["c1"].our.transferred = LockAmount
    /\ "h1" \in chans["c1"].our.pending

(***************************************************************************)
(* The reveal secrets SendAsync sends: the row of the sent secret, the     *)
(* message on its way, the notification of its ack.                        *)
(***************************************************************************)
MaxSends == 2       \* the calls of SendAsync in one run

SentMessageType == {"RevealSecret", "Secret", "MediatedTransfer"}

\* the tags a message comes with: none, the tag with the state manager the
\* event handler of the state machine has set, or, on a reveal secret that
\* is sent again to the same recipient, the tag SendAsync has set before
\* (the callers send a clone to each recipient, lines 540, 641, 650)
TagsOf(type, recipient) == IF type = "RevealSecret" THEN {"nil", SentEchoHash("s1", recipient)} ELSE {"nil", "manager"}

srsFrame == <<chanVars, sent, logVars, blockNumber, result, taskVars, swapVars, dbVars, sending, pc, recoveryVars, lifeVars, goVars, ioVars, mgrVars, closeVars, blockVars, txVars, ackVars, startVars>>

\* db.NewSentRevealSecret(srs): the row of the sent secret, not complete; the
\* caller does not learn whether the write succeeded
NewSentRevealSecret(db, echoHash, saved) == IF saved THEN [db EXCEPT ![echoHash] = <<[Complete |-> FALSE]>>] ELSE db

\* db.UpdateSentRevealSecretComplete(echoHash): the row, if there is one, is complete
UpdateSentRevealSecretComplete(db, echoHash) == IF db[echoHash] = <<>> THEN db ELSE [db EXCEPT ![echoHash] = <<[Complete |-> TRUE]>>]

\* the loop is inside SendAsync, between the write and Protocol.SendAsync
InSendAsync == \E i \in 1..Len(sendCalls) : sendCalls[i].at = "db"

\* SendAsync up to Protocol.SendAsync: the row of a reveal secret is written
\* and a reveal secret without a tag gets the tag with its echo hash
SendAsyncPersist(recipient, type, tag, saved) ==
    LET echoHash == SentEchoHash("s1", recipient)
        isReveal == type = "RevealSecret"
    IN  /\ Len(sendCalls) < MaxSends
        /\ ~InSendAsync
        /\ SentRevealSecrets' = IF isReveal
                                THEN NewSentRevealSecret(SentRevealSecrets, echoHash, saved)
                                ELSE SentRevealSecrets
        /\ sendCalls' = Append(sendCalls, [to |-> recipient, type |-> type,
                                           tag |-> IF isReveal /\ tag = "nil" THEN echoHash ELSE tag,
                                           at |-> "db", rowAtSend |-> FALSE])
        /\ UNCHANGED srsFrame

\* result := Protocol.SendAsync(recipient, msg) and the goroutine that waits
\* for result.Result
SendAsyncProtocol(i) ==
    /\ sendCalls[i].at = "db"
    /\ sendCalls' = [sendCalls EXCEPT ![i].at = "protocol",
                                      ![i].rowAtSend = SentRevealSecrets[SentEchoHash("s1", sendCalls[i].to)] # <<>>]
    /\ UNCHANGED <<SentRevealSecrets, srsFrame>>

\* the peer acks: the goroutine of the call puts the message on
\* ProtocolMessageSendComplete
SendAsyncResult(i) ==
    /\ sendCalls[i].at = "protocol"
    /\ sendCalls' = [sendCalls EXCEPT ![i].at = "ProtocolMessageSendComplete"]
    /\ UNCHANGED <<SentRevealSecrets, srsFrame>>

\* the branch handleSentMessage takes on the tag of the message
SentMessageBranch(tag) ==
    CASE tag = "nil" -> "log.Error"
      [] tag = "manager" -> "StateManager"
      [] tag \in SentEchoHashes -> "EchoHash"
      [] OTHER -> "panic"

\* handleSentMessage of the message of call i
handleSentRevealSecret(i) ==
    LET call == sendCalls[i]
        branch == SentMessageBranch(call.tag)
    IN  /\ call.at = "ProtocolMessageSendComplete"
        /\ ~InSendAsync
        /\ SentRevealSecrets' = IF branch = "EchoHash" /\ call.type = "RevealSecret"
                                THEN UpdateSentRevealSecretComplete(SentRevealSecrets, call.tag)
                                ELSE SentRevealSecrets
        /\ sendCalls' = [sendCalls EXCEPT ![i].at = IF branch = "panic" THEN "panic" ELSE "handled"]
        /\ UNCHANGED srsFrame

NextSends ==
    \/ \E recipient \in Partners, type \in SentMessageType, saved \in BOOLEAN :
           \E tag \in TagsOf(type, recipient) : SendAsyncPersist(recipient, type, tag, saved)
    \/ \E i \in 1..Len(sendCalls) : SendAsyncProtocol(i)
    \/ \E i \in 1..Len(sendCalls) : SendAsyncResult(i)
    \/ \E i \in 1..Len(sendCalls) : handleSentRevealSecret(i)

SpecSends == Init /\ [][NextSends]_vars

\* every reveal secret handed to the protocol had its row in the db
PersistedBeforeSent == \A i \in 1..Len(sendCalls) : (sendCalls[i].type = "RevealSecret" /\ sendCalls[i].at # "db") => sendCalls[i].rowAtSend

\* a row becomes complete only in the step that handles the notification of
\* a reveal secret with its echo hash
CompleteOnlyOnNotification(e) == (SentRevealSecrets[e] # <<>> /\ SentRevealSecrets'[e] # <<>> /\ ~SentRevealSecrets[e][1].Complete /\ SentRevealSecrets'[e][1].Complete) => \E i \in 1..Len(sendCalls) : sendCalls[i].tag = e /\ sendCalls[i].type = "RevealSecret" /\ sendCalls[i].at = "ProtocolMessageSendComplete" /\ sendCalls'[i].at = "handled"

\* no notification makes handleSentMessage panic
NoSentMessagePanic == \A i \in 1..Len(sendCalls) : sendCalls[i].at # "panic"

\* C40: every RevealSecret passed to SendAsync has its row of the sent
\* secret in the db before the message is handed to the protocol, the row is
\* marked complete only when the notification of that message is handled, and
\* the notification of a sent message never makes handleSentMessage panic.
SentRevealSecretBookkeeping == [](PersistedBeforeSent /\ NoSentMessagePanic) /\ [][\A e \in SentEchoHashes : CompleteOnlyOnNotification(e)]_vars

====
